---- MODULE Spec2Model ----
(***************************************************************************)
(* A model of the Stratumn javascript Sdk (stratumn/sdk-js):               *)
(*   - TraceLinkBuilder (src/src/traceLinkBuilder.ts): the fluent builder  *)
(*     of trace links;                                                     *)
(*   - Sdk (src/unnamed/part_007, the Sdk class with the config mutex):    *)
(*     getConfig, getHeadLink, createLink and the seven write operations,  *)
(*     run as concurrent asynchronous tasks that suspend at every await.   *)
(***************************************************************************)
EXTENDS Integers, Sequences, FiniteSets, TLC

VARIABLES
  \* ---- TraceLinkBuilder used on its own (specification SpecBuilder) ----
  bld,          \* the builder under construction: <<>> or <<builder>>
  bldCall,      \* the last call made on the builder and the error it threw
  lastBuild,    \* the last link built, its parent and the calls that made it
  \* ---- one Sdk instance and its remote service (specification Spec) ----
  opts,         \* Sdk.opts: the options the Sdk was constructed with
  service,      \* remote service: the account of the caller and the workflow
  config,       \* Sdk.config: <<>> (undefined) or <<SdkConfig>>
  mutex,        \* Sdk.mutex: [locked, queue]
  tasks,        \* the operations started on the Sdk, one record per task
  graphqlCalls, \* the calls made to client.graphql, in order
  traces,       \* remote service: trace id -> head link of that trace
  nextUuid,     \* the number of uuids generated so far
  \* ---- extractObjects and assignObjects (specification SpecFiles) ----
  fileData,     \* the data, and what was extracted from it and assigned to it
  \* ---- SdkConfig used on its own (specification SpecConfig) ----
  groupCall,    \* an SdkConfig and the last call of its groupId method
  \* ---- the Client used on its own (specification SpecClient) ----
  client        \* a Client, its requests and the calls it made

sdkVars == <<opts, service, config, mutex, tasks, graphqlCalls, traces>>
bldVars == <<bld, bldCall, lastBuild>>
vars ==
  <<bld, bldCall, lastBuild, opts, service, config, mutex, tasks, graphqlCalls,
    traces, nextUuid, fileData, groupCall, client>>

----------------------------------------------------------------------------
(* Bounds of the model. *)

\* number of operations started on the Sdk (each task runs one operation)
NumTasks == 2
\* the number of requests that the callers of a Client make
NumReqs == 2
\* links are built up to this priority (length of a chain of links)
MaxPriority == 3

----------------------------------------------------------------------------
(* Values. *)

Undefined == "undefined"
WorkflowId == "wf"
Accounts == {"acc1"}
Groups == {"g1"}
ActionKeys == {"form1"}
ConfigIds == {"cfg1", "cfg2"}

ERROR_CONFIG_DEPRECATED == "link config deprecated"
ERROR_PARENT == "Parent link must be provided"
ERROR_ACTION == "one of actionKey or formId should be provided"
ERROR_HEAD == "Previous link or trace id must be provided"
NoError == "none"

\* the hash of nothing: prevLinkHash of a link that has no parent
EmptyHash == <<>>

----------------------------------------------------------------------------
(* Javascript values (payloads, link data). A value is the record          *)
(*   [type, val, name, kids]                                               *)
(* type: "undefined", "null", "scalar", "array", "object" (a plain         *)
(*       object), "wrapper" (a FileWrapper) or "record" (a FileRecord, or  *)
(*       a plain object with its four fields);                             *)
(* val:  the scalar, the id of the wrapper, the digest of the record;      *)
(* name: the file name of the record (its mimetype and its size, and the   *)
(*       fields of a wrapper other than its id, are left out);             *)
(* kids: the elements of the array, or the fields of the object in the     *)
(*       order of their insertion, as entries [key, value].                *)
(* A string that the code builds or parses (a key, a path, a serialized    *)
(* value) is the sequence of its characters.                               *)

Leaf(type, val) == [type |-> type, val |-> val, name |-> "", kids |-> <<>>]
UndefinedValue == Leaf("undefined", "")
NullValue == Leaf("null", "")
Scalar(v) == Leaf("scalar", v)
Entry(key, value) == [key |-> key, value |-> value]
Object(entries) == [type |-> "object", val |-> "", name |-> "", kids |-> entries]
Array(values) ==
  [type |-> "array", val |-> "", name |-> "",
   kids |-> [i \in DOMAIN values |-> Entry(<<>>, values[i])]]
EmptyObject == Object(<<>>)
EmptyArray == Array(<<>>)

\* a FileWrapper: its id is the uuid made by its constructor
FileWrapper(id) == [type |-> "wrapper", val |-> id, name |-> "", kids |-> <<>>]

\* new FileRecord(media, info): the id of a record is its digest
FileRecord(digest, name) ==
  [type |-> "record", val |-> digest, name |-> name, kids |-> <<>>]

\* FileRecord.fromObject(obj): a record made of the four fields of obj
fromObject(obj) == FileRecord(obj.val, obj.name)

isFileWrapper(obj) == obj.type = "wrapper"
isFileRecord(obj) == obj.type = "record"

\* `if (x)` on a value
Truthy(x) == x.type \notin {"undefined", "null"}

\* lodash's isObject
isObject(x) == x.type \in {"array", "object", "wrapper", "record"}

\* the decimal digits of a natural number, as `${idx}` writes them
RECURSIVE Digits(_)
Digits(n) ==
  IF n < 10 THEN <<ToString(n)>> ELSE Digits(n \div 10) \o <<ToString(n % 10)>>

\* lodash's isIndex on a key: the key is written as an array index
isIndex(key) ==
  /\ key # <<>>
  /\ \A i \in DOMAIN key : key[i] \in { ToString(d) : d \in 0..9 }
  /\ Len(key) > 1 => key[1] # "0"

\* the number that an index key stands for
RECURSIVE ToIndex(_)
ToIndex(key) ==
  LET last == CHOOSE d \in 0..9 : ToString(d) = key[Len(key)]
  IN IF Len(key) = 1 THEN last ELSE 10 * ToIndex(SubSeq(key, 1, Len(key) - 1)) + last

\* object[key]
GetProp(object, key) ==
  CASE object.type = "object" ->
         LET at == { i \in DOMAIN object.kids : object.kids[i].key = key }
         IN IF at = {} THEN UndefinedValue ELSE object.kids[CHOOSE i \in at : TRUE].value
    [] object.type = "array" ->
         IF isIndex(key) /\ ToIndex(key) < Len(object.kids)
           THEN object.kids[ToIndex(key) + 1].value
           ELSE UndefinedValue
    [] object.type = "wrapper" ->
         IF key = <<"i", "d">> THEN Scalar(object.val) ELSE UndefinedValue
    [] object.type = "record" ->
         LET at == { i \in DOMAIN object.kids : object.kids[i].key = key }
         IN IF key = <<"d", "i", "g", "e", "s", "t">> THEN Scalar(object.val)
            ELSE IF key = <<"n", "a", "m", "e">> THEN Scalar(object.name)
            ELSE IF at = {} THEN UndefinedValue
            ELSE object.kids[CHOOSE i \in at : TRUE].value
    [] OTHER -> UndefinedValue

\* key in object
HasProp(object, key) ==
  CASE object.type = "object" -> \E i \in DOMAIN object.kids : object.kids[i].key = key
    [] object.type = "array" -> isIndex(key) /\ ToIndex(key) < Len(object.kids)
    [] OTHER -> FALSE

\* object[key] = value: a new field comes last; an array grows up to the
\* index, with holes that read as undefined
SetProp(object, key, value) ==
  CASE object.type = "object" ->
         IF HasProp(object, key)
           THEN [object EXCEPT !.kids =
                   [i \in DOMAIN @ |-> IF @[i].key = key THEN Entry(key, value) ELSE @[i]]]
           ELSE [object EXCEPT !.kids = Append(@, Entry(key, value))]
    [] object.type = "array" /\ isIndex(key) ->
         LET n == ToIndex(key) + 1
             len == IF n > Len(object.kids) THEN n ELSE Len(object.kids)
         IN [object EXCEPT !.kids =
               [i \in 1..len |->
                  IF i = n THEN Entry(<<>>, value)
                  ELSE IF i <= Len(object.kids) THEN object.kids[i]
                  ELSE Entry(<<>>, UndefinedValue)]]

\* the keys of a source of merge, in the order of keysIn
KeysIn(source) ==
  CASE source.type = "object" -> [i \in DOMAIN source.kids |-> source.kids[i].key]
    [] source.type = "array" -> [i \in DOMAIN source.kids |-> Digits(i - 1)]
    [] source.type = "wrapper" -> << <<"i", "d">> >>
    [] source.type = "record" ->
         << <<"d", "i", "g", "e", "s", "t">>, <<"n", "a", "m", "e">> >>
           \o [i \in DOMAIN source.kids |-> source.kids[i].key]
    [] OTHER -> <<>>

\* jest's toEqual: arrays by position, objects by key whatever the order of
\* insertion, a field that is undefined counts as no field; an array never
\* equals an object
RECURSIVE DeepEqual(_, _)
DeepEqual(a, b) ==
  LET Defined(x) == { x.kids[i].key : i \in { j \in DOMAIN x.kids :
                                                x.kids[j].value.type # "undefined" } }
  IN CASE a.type # b.type -> FALSE
       [] a.type = "array" /\ b.type = "array" ->
            /\ Len(a.kids) = Len(b.kids)
            /\ \A i \in DOMAIN a.kids : DeepEqual(a.kids[i].value, b.kids[i].value)
       [] a.type = "object" /\ b.type = "object" ->
            /\ Defined(a) = Defined(b)
            /\ \A k \in Defined(a) : DeepEqual(GetProp(a, k), GetProp(b, k))
       [] OTHER -> a = b

----------------------------------------------------------------------------
(* A javascript Map: the sequence of its entries <<key, value>> in the     *)
(* order of insertion.                                                     *)

MapHas(m, k) == \E i \in DOMAIN m : m[i][1] = k
MapGet(m, k) ==
  IF MapHas(m, k) THEN m[CHOOSE i \in DOMAIN m : m[i][1] = k][2] ELSE UndefinedValue
MapSet(m, k, v) ==
  IF MapHas(m, k)
    THEN [i \in DOMAIN m |-> IF m[i][1] = k THEN <<k, v>> ELSE m[i]]
    ELSE Append(m, <<k, v>>)

----------------------------------------------------------------------------
(* helpers.ts: extractObjects and assignObjects. The predicate and the     *)
(* reviver of extractObjects are named by `which`: "wrapper" for           *)
(* FileWrapper.isFileWrapper and no reviver, "record" for                  *)
(* FileRecord.isFileRecord and FileRecord.fromObject.                      *)

Predicate(which, data) ==
  IF which = "wrapper" THEN isFileWrapper(data) ELSE isFileRecord(data)
Reviver(which, data) == IF which = "wrapper" THEN data ELSE fromObject(data)

\* the path of the i-th element or field of data: `${path}[${idx}]` for an
\* array, `${path}.${key}` for an object, and the key alone at the root
ChildPath(data, i, path) ==
  IF data.type = "array"
    THEN path \o <<"[">> \o Digits(i - 1) \o <<"]">>
    ELSE IF path = <<>> THEN data.kids[i].key
         ELSE path \o <<".">> \o data.kids[i].key

\* an extraction that goes on below the objects it extracts
RECURSIVE extractObjectsImplDeep(_, _, _, _)
extractObjectsImplDeep(data, path, maps, which) ==
  LET RECURSIVE Each(_, _)
      Each(i, m) ==
        IF i > Len(data.kids) THEN m
        ELSE Each(i + 1, extractObjectsImplDeep(data.kids[i].value,
                                                ChildPath(data, i, path), m, which))
      newData == Reviver(which, data)
      found == IF Predicate(which, data)
                 THEN [pathToIdMap |-> MapSet(maps.pathToIdMap, path, newData.val),
                       idToObjectMap |-> MapSet(maps.idToObjectMap, newData.val, newData)]
                 ELSE maps
  IN IF data.kids # <<>> THEN Each(1, found) ELSE found

RECURSIVE extractObjectsImpl(_, _, _, _)
extractObjectsImpl(data, path, maps, which) ==
  LET RECURSIVE Each(_, _)
      Each(i, m) ==
        IF i > Len(data.kids) THEN m
        ELSE Each(i + 1, extractObjectsImpl(data.kids[i].value,
                                            ChildPath(data, i, path), m, which))
      newData == Reviver(which, data)
  IN IF Predicate(which, data)
       THEN [pathToIdMap |-> MapSet(maps.pathToIdMap, path, newData.val),
             idToObjectMap |-> MapSet(maps.idToObjectMap, newData.val, newData)]
     ELSE IF data.type \in {"array", "object"}
       THEN Each(1, maps)
     ELSE maps

extractObjects(data, which) ==
  extractObjectsImpl(data, <<>>, [pathToIdMap |-> <<>>, idToObjectMap |-> <<>>], which)
extractFileWrappers(data) == extractObjects(data, "wrapper")
extractFileRecords(data) == extractObjects(data, "record")

\* lodash's castPath: a path without `.` and `[` is one key; any other path
\* is cut into keys at `.`, `[` and `]`
RECURSIVE stringToPath(_, _, _)
stringToPath(string, key, result) ==
  LET flushed == IF key = <<>> THEN result ELSE Append(result, key)
  IN IF string = <<>> THEN flushed
     ELSE IF Head(string) \in {".", "[", "]"}
       THEN stringToPath(Tail(string), <<>>, flushed)
     ELSE stringToPath(Tail(string), Append(key, Head(string)), result)

castPath(path) ==
  IF \A i \in DOMAIN path : path[i] \notin {".", "["}
    THEN <<path>>
    ELSE stringToPath(path, <<>>, <<>>)

\* lodash's baseSet: the value is set at the end of the path; a missing
\* object on the way is made, an array when the next key is an index
RECURSIVE baseSet(_, _, _)
baseSet(nested, path, value) ==
  LET key == Head(path)
      objValue == GetProp(nested, key)
      next == IF isObject(objValue) THEN objValue
              ELSE IF isIndex(path[2]) THEN EmptyArray ELSE EmptyObject
  IN SetProp(nested, key,
             IF Len(path) = 1 THEN value ELSE baseSet(next, Tail(path), value))

setInObject(object, path, value) == baseSet(object, castPath(path), value)

\* lodash's baseMerge(object, source): arrays and plain objects of the source
\* are merged into the value of the object, or into a new array or object;
\* other objects and values are assigned; undefined is not assigned over a
\* key that the object has
RECURSIVE baseMerge(_, _)
baseMerge(object, source) ==
  LET keys == KeysIn(source)
      mergeKey(into, key) ==
        LET srcValue == GetProp(source, key)
            objValue == GetProp(into, key)
        IN CASE srcValue.type = "array" ->
                  SetProp(into, key,
                          baseMerge(IF objValue.type = "array" THEN objValue
                                    ELSE EmptyArray, srcValue))
             [] srcValue.type = "object" ->
                  SetProp(into, key,
                          baseMerge(IF isObject(objValue) THEN objValue
                                    ELSE EmptyObject, srcValue))
             [] srcValue.type = "undefined" ->
                  IF HasProp(into, key) THEN into ELSE SetProp(into, key, srcValue)
             [] OTHER -> SetProp(into, key, srcValue)
      RECURSIVE Each(_, _)
      Each(i, into) == IF i > Len(keys) THEN into ELSE Each(i + 1, mergeKey(into, keys[i]))
  IN Each(1, object)

\* mergeObjects({}, data, res)
mergeObjects(data, res) == baseMerge(baseMerge(EmptyObject, data), res)

\* assignObjects: the object `res` that collects the objects of the maps
RECURSIVE collectObjects(_, _, _, _)
collectObjects(i, res, pathToIdMap, idToObjectMap) ==
  IF i > Len(pathToIdMap) THEN res
  ELSE collectObjects(i + 1,
                      setInObject(res, pathToIdMap[i][1],
                                  MapGet(idToObjectMap, pathToIdMap[i][2])),
                      pathToIdMap, idToObjectMap)

\* an assignObjects that returns the data as given
assignNothing(data, pathToIdMap, idToObjectMap) == data

assignObjects(data, pathToIdMap, idToObjectMap) ==
  IF Len(pathToIdMap) = 0 THEN data
  ELSE mergeObjects(data, collectObjects(1, EmptyObject, pathToIdMap, idToObjectMap))

\* a merge of res into the data themselves: mergeObjects(data, res)
mergedDataInPlace(data, res) == baseMerge(data, res)

\* a value of the data once mergeObjects({}, data, res) has returned, res
\* being what the collected object holds at the place of the value. The
\* merge copies the arrays and the plain objects of the data, and shares with
\* the data their other objects (file wrappers, file records): such an
\* object is written where res holds a plain object at its place.
RECURSIVE mergedValue(_, _)
mergedValue(value, res) ==
  CASE \/ (value.type \in {"object", "array"} /\ res.type = "object")
       \/ (value.type = "array" /\ res.type = "array") ->
         [value EXCEPT !.kids =
            [i \in DOMAIN value.kids |->
               LET key == IF value.type = "array" THEN Digits(i - 1) ELSE value.kids[i].key
               IN IF HasProp(res, key)
                    THEN [value.kids[i] EXCEPT
                            !.value = mergedValue(value.kids[i].value, GetProp(res, key))]
                    ELSE value.kids[i]]]
    [] value.type \in {"wrapper", "record"} /\ res.type = "object" -> baseMerge(value, res)
    [] OTHER -> value

\* the data once mergeObjects({}, data, res) has returned: the fields of the
\* data are merged into the new object `{}`, the data themselves are not
\* written
mergedData(data, res) ==
  [data EXCEPT !.kids =
     [i \in DOMAIN data.kids |->
        LET key == IF data.type = "array" THEN Digits(i - 1) ELSE data.kids[i].key
        IN IF HasProp(res, key)
             THEN [data.kids[i] EXCEPT
                     !.value = mergedValue(data.kids[i].value, GetProp(res, key))]
             ELSE data.kids[i]]]

\* the data once assignObjects has returned
assignedData(data, pathToIdMap, idToObjectMap) ==
  IF Len(pathToIdMap) = 0 THEN data
  ELSE mergedData(data, collectObjects(1, EmptyObject, pathToIdMap, idToObjectMap))

----------------------------------------------------------------------------
(* @stratumn/canonicaljson: stringify writes the fields of an object in    *)
(* the order of their keys, whatever the order of their insertion.         *)

\* the order of two keys, character by character
RECURSIVE KeyBefore(_, _)
KeyBefore(k1, k2) ==
  LET CharOrder == <<"0", "1", "2", "3", "4", "5", "6", "7", "8", "9",
                    "a", "b", "c", "d", "e", "f">>
      CharRank(c) == CHOOSE i \in DOMAIN CharOrder : CharOrder[i] = c
  IN
  IF k1 = <<>> THEN k2 # <<>>
  ELSE IF k2 = <<>> THEN FALSE
  ELSE IF Head(k1) = Head(k2) THEN KeyBefore(Tail(k1), Tail(k2))
  ELSE CharRank(Head(k1)) < CharRank(Head(k2))

\* the entries of an object sorted by key
RECURSIVE SortedEntries(_)
SortedEntries(entries) ==
  IF entries = <<>> THEN <<>>
  ELSE LET first == CHOOSE i \in DOMAIN entries :
                      \A j \in DOMAIN entries :
                        j = i \/ KeyBefore(entries[i].key, entries[j].key)
           rest == [j \in 1..(Len(entries) - 1) |->
                      IF j < first THEN entries[j] ELSE entries[j + 1]]
       IN <<entries[first]>> \o SortedEntries(rest)

\* a stringify that writes the fields in the order of their insertion
RECURSIVE stringifyInOrder(_)
stringifyInOrder(obj) ==
  LET RECURSIVE Each(_, _)
      Each(entries, i) ==
        IF i > Len(entries) THEN <<>>
        ELSE (IF i > 1 THEN <<",">> ELSE <<>>)
             \o (IF obj.type = "array" THEN <<>>
                 ELSE <<"\"">> \o entries[i].key \o <<"\"", ":">>)
             \o stringifyInOrder(entries[i].value)
             \o Each(entries, i + 1)
  IN CASE obj.type = "object" -> <<"{">> \o Each(obj.kids, 1) \o <<"}">>
       [] obj.type = "array" -> <<"[">> \o Each(obj.kids, 1) \o <<"]">>
       [] obj.type = "scalar" -> <<"\"", obj.val, "\"">>
       [] obj.type = "null" -> <<"null">>
       [] obj.type = "wrapper" -> <<"{", "\"", "id", "\"", ":", "\"", obj.val, "\"", "}">>
       [] obj.type = "record" ->
            <<"{", "\"", "digest", "\"", ":", "\"", obj.val, "\"", ",",
              "\"", "name", "\"", ":", "\"", obj.name, "\"", "}">>

RECURSIVE stringify(_)
stringify(obj) ==
  LET RECURSIVE Each(_, _)
      Each(entries, i) ==
        IF i > Len(entries) THEN <<>>
        ELSE (IF i > 1 THEN <<",">> ELSE <<>>)
             \o (IF obj.type = "array" THEN <<>>
                 ELSE <<"\"">> \o entries[i].key \o <<"\"", ":">>)
             \o stringify(entries[i].value)
             \o Each(entries, i + 1)
  IN CASE obj.type = "object" -> <<"{">> \o Each(SortedEntries(obj.kids), 1) \o <<"}">>
       [] obj.type = "array" -> <<"[">> \o Each(obj.kids, 1) \o <<"]">>
       [] obj.type = "scalar" -> <<"\"", obj.val, "\"">>
       [] obj.type = "null" -> <<"null">>
       [] obj.type = "wrapper" -> <<"{", "\"", "id", "\"", ":", "\"", obj.val, "\"", "}">>
       [] obj.type = "record" ->
            <<"{", "\"", "digest", "\"", ":", "\"", obj.val, "\"", ",",
              "\"", "name", "\"", ":", "\"", obj.name, "\"", "}">>

----------------------------------------------------------------------------
(* Payloads. *)

\* two payloads with the same fields, inserted in another order
PayloadAB == Object(<<Entry(<<"a">>, Scalar("x")), Entry(<<"b">>, Scalar("y"))>>)
PayloadBA == Object(<<Entry(<<"b">>, Scalar("y")), Entry(<<"a">>, Scalar("x"))>>)

\* an optional payload: undefined or an object
Payloads == {UndefinedValue, PayloadAB, PayloadBA}

----------------------------------------------------------------------------
(* Links. A link is the record                                             *)
(*   [workflowId, mapId, outDegree, priority, prevLinkHash, action,        *)
(*    processState, data, metadata, signatures, formData]                  *)
(* where metadata is the record of TraceLinkMetaData.                      *)

\* Link.hash(): the digest of the serialized link, modelled as the tagged
\* tuple of everything that is serialized (formData is not part of the link).
LinkHash(l) ==
  <<"sha256", l.workflowId, l.mapId, l.outDegree, l.priority, l.prevLinkHash,
    l.action, l.processState, l.data, l.metadata, l.signatures>>

\* TraceLink accessors
traceId(l) == l.mapId
priority(l) == l.priority
owner(l) == l.metadata.ownerId
group(l) == l.metadata.groupId
form(l) == l.metadata.formId
lastForm(l) == l.metadata.lastFormId

\* `a || b` on optional strings
OrElse(a, b) == IF a # Undefined /\ a # "" THEN a ELSE b

EmptyMetadata ==
  [ownerId |-> Undefined, groupId |-> Undefined, createdById |-> Undefined,
   formId |-> Undefined, lastFormId |-> Undefined, inputs |-> <<>>,
   configId |-> Undefined]

----------------------------------------------------------------------------
(* TraceLinkBuilder. A builder is the record                               *)
(*   [link: the chainscript link being built (without metadata),           *)
(*    metadata, parentLink: <<>> or <<link>>, formData]                    *)

\* chainscript's new LinkBuilder(process, mapId): an empty link
LinkBuilder(process, mapId) ==
  [workflowId |-> process, mapId |-> mapId, outDegree |-> 0, priority |-> 0,
   prevLinkHash |-> EmptyHash, action |-> Undefined, processState |-> Undefined,
   data |-> <<>>, signatures |-> <<>>]

withDegree(link, d) == [link EXCEPT !.outDegree = d]
withPriority(link, p) == [link EXCEPT !.priority = p]
withParent(link, hash) == [link EXCEPT !.prevLinkHash = hash]

\* a constructor that starts a new trace even when it is given a parent
TraceLinkBuilderNewTrace(cfg, uuid) ==
  LET hasParent == cfg.parentLink # <<>>
      parent == cfg.parentLink[1]
      first == withPriority(withDegree(LinkBuilder(cfg.workflowId, uuid), 1), 1)
  IN [link |-> IF hasParent
                 THEN withParent(withPriority(first, priority(parent) + 1),
                                 LinkHash(parent))
                 ELSE first,
      metadata |-> EmptyMetadata,
      parentLink |-> cfg.parentLink,
      formData |-> UndefinedValue]

\* a constructor that forgets the parent's hash and priority
TraceLinkBuilderUnchained(cfg, uuid) ==
  LET mapId == IF cfg.parentLink # <<>> THEN traceId(cfg.parentLink[1]) ELSE uuid
  IN [link |-> withPriority(withDegree(LinkBuilder(cfg.workflowId, mapId), 1), 1),
      metadata |-> EmptyMetadata,
      parentLink |-> cfg.parentLink,
      formData |-> UndefinedValue]

\* new TraceLinkBuilder({ workflowId, parentLink }); uuid is the value that
\* uuid() returns when it is called.
TraceLinkBuilder(cfg, uuid) ==
  LET hasParent == cfg.parentLink # <<>>
      parent == cfg.parentLink[1]
      mapId == IF hasParent THEN traceId(parent) ELSE uuid
      first == withPriority(withDegree(LinkBuilder(cfg.workflowId, mapId), 1), 1)
  IN [link |-> IF hasParent
                 THEN withParent(withPriority(first, priority(parent) + 1),
                                 LinkHash(parent))
                 ELSE first,
      metadata |-> EmptyMetadata,
      parentLink |-> cfg.parentLink,
      formData |-> UndefinedValue]

\* the outcome of a builder call: the builder after it and the error thrown
Returned(b) == [builder |-> b, error |-> NoError]
Thrown(b, e) == [builder |-> b, error |-> e]

\* getParentLink(): the parent link, or the error thrown when there is none
getParentLink(b) ==
  IF b.parentLink = <<>>
    THEN [error |-> ERROR_PARENT, value |-> <<>>]
    ELSE [error |-> NoError, value |-> b.parentLink]

\* crypto.createHash(algo).update(stringify(obj)).digest('base64'): the digest
\* is modelled as the tagged serialization (no two serializations collide)
HashData(obj) == <<"sha256", stringify(obj)>>

withHashedData(b, obj) ==
  IF Truthy(obj)
    THEN [b EXCEPT !.link.data = <<[algo |-> "sha256", hash |-> HashData(obj)]>>,
                   !.formData = obj]
    ELSE b

withAction(b, action) == [b EXCEPT !.link.action = action]
withProcessState(b, type) == [b EXCEPT !.link.processState = type]
withOwner(b, ownerId) == [b EXCEPT !.metadata.ownerId = ownerId]
withGroup(b, groupId) == [b EXCEPT !.metadata.groupId = groupId]
withCreatedBy(b, userId) == [b EXCEPT !.metadata.createdById = userId]

forAttestation(b, actionKey, data) ==
  Returned([withProcessState(withAction(withHashedData(b, data), actionKey), "OWNED")
              EXCEPT !.metadata.formId = actionKey])

\* forTransferRequest that takes the last form from the parent's form only
forTransferRequestFormOnly(b, to, action, type, data) ==
  LET got == getParentLink(b)
      parent == got.value[1]
      b1 == withGroup(withOwner(b, owner(parent)), group(parent))
      b2 == withProcessState(withAction(withHashedData(b1, data), action), type)
  IN IF got.error # NoError
       THEN Thrown(b, got.error)
       ELSE Returned([b2 EXCEPT !.metadata.inputs = <<to>>,
                                !.metadata.lastFormId = form(parent)])

forTransferRequest(b, to, action, type, data) ==
  LET got == getParentLink(b)
      parent == got.value[1]
      b1 == withGroup(withOwner(b, owner(parent)), group(parent))
      b2 == withProcessState(withAction(withHashedData(b1, data), action), type)
  IN IF got.error # NoError
       THEN Thrown(b, got.error)
       ELSE Returned([b2 EXCEPT !.metadata.inputs = <<to>>,
                                !.metadata.lastFormId =
                                   OrElse(form(parent), lastForm(parent))])

forPushTransfer(b, to, data) ==
  forTransferRequest(b, to, "_PUSH_OWNERSHIP_", "PUSHING", data)

\* forPullTransfer with the action and the state of a push
forPullTransferPushing(b, to, data) ==
  forTransferRequest(b, to, "_PUSH_OWNERSHIP_", "PUSHING", data)

forPullTransfer(b, to, data) ==
  forTransferRequest(b, to, "_PULL_OWNERSHIP_", "PULLING", data)

forCancelTransfer(b, data) ==
  LET got == getParentLink(b)
      parent == got.value[1]
      b1 == withGroup(withOwner(b, owner(parent)), group(parent))
  IN IF got.error # NoError
       THEN Thrown(b, got.error)
       ELSE Returned(withProcessState(
              withAction(withHashedData(b1, data), "_CANCEL_TRANSFER_"), "OWNED"))

forRejectTransfer(b, data) ==
  LET got == getParentLink(b)
      parent == got.value[1]
      b1 == withGroup(withOwner(b, owner(parent)), group(parent))
  IN IF got.error # NoError
       THEN Thrown(b, got.error)
       ELSE Returned(withProcessState(
              withAction(withHashedData(b1, data), "_REJECT_TRANSFER_"), "OWNED"))

\* forAcceptTransfer without the call that asserts the parent link
forAcceptTransferUnchecked(b, data) ==
  Returned(withProcessState(
    withAction(withHashedData(b, data), "_ACCEPT_TRANSFER_"), "OWNED"))

\* forAcceptTransfer that takes the owner and the group of the parent, as
\* the cancel and the reject do
forAcceptTransferInheriting(b, data) ==
  LET got == getParentLink(b)
      parent == got.value[1]
      b1 == withGroup(withOwner(b, owner(parent)), group(parent))
  IN IF got.error # NoError
       THEN Thrown(b, got.error)
       ELSE Returned(withProcessState(
              withAction(withHashedData(b1, data), "_ACCEPT_TRANSFER_"), "OWNED"))

forAcceptTransfer(b, data) ==
  LET got == getParentLink(b)
  IN IF got.error # NoError
       THEN Thrown(b, got.error)
       ELSE Returned(withProcessState(
              withAction(withHashedData(b, data), "_ACCEPT_TRANSFER_"), "OWNED"))

\* a build() that refuses a builder on which no forX call set an action
buildChecked(b) ==
  IF b.link.action = Undefined THEN <<>> ELSE
  [workflowId |-> b.link.workflowId,
   mapId |-> b.link.mapId,
   outDegree |-> b.link.outDegree,
   priority |-> b.link.priority,
   prevLinkHash |-> b.link.prevLinkHash,
   action |-> b.link.action,
   processState |-> b.link.processState,
   data |-> b.link.data,
   metadata |-> b.metadata,
   signatures |-> b.link.signatures,
   formData |-> b.formData]

\* build(): the link with the metadata serialized into it, and the form data
build(b) ==
  [workflowId |-> b.link.workflowId,
   mapId |-> b.link.mapId,
   outDegree |-> b.link.outDegree,
   priority |-> b.link.priority,
   prevLinkHash |-> b.link.prevLinkHash,
   action |-> b.link.action,
   processState |-> b.link.processState,
   data |-> b.link.data,
   metadata |-> b.metadata,
   signatures |-> b.link.signatures,
   formData |-> b.formData]

ForOps == {"forAttestation", "forPushTransfer", "forPullTransfer",
           "forCancelTransfer", "forRejectTransfer", "forAcceptTransfer"}
ParentOps == ForOps \ {"forAttestation"}

\* the outcome of the call op(key, to, data) on builder b
ApplyFor(b, op, key, to, data) ==
  CASE op = "forAttestation" -> forAttestation(b, key, data)
    [] op = "forPushTransfer" -> forPushTransfer(b, to, data)
    [] op = "forPullTransfer" -> forPullTransfer(b, to, data)
    [] op = "forCancelTransfer" -> forCancelTransfer(b, data)
    [] op = "forRejectTransfer" -> forRejectTransfer(b, data)
    [] op = "forAcceptTransfer" -> forAcceptTransfer(b, data)

----------------------------------------------------------------------------
(* The Sdk: values. *)

WriteKinds == {"newTrace", "appendLink", "pushTrace", "pullTrace",
               "acceptTransfer", "rejectTransfer", "cancelTransfer"}
AttestationKinds == {"newTrace", "appendLink"}

\* payloads given to the operations that run concurrently (none holds a file
\* wrapper)
SdkPayloads == {PayloadAB}

\* a payload that holds a file, given to the operations that run one at a time
PayloadFile ==
  Object(<<Entry(<<"a">>, Scalar("x")), Entry(<<"f">>, FileWrapper("w1"))>>)
ChainPayloads == {PayloadFile}

\* payloads given to an operation that runs alone: no file, one file, one
\* file at three places next to another file, and two files in an array
PayloadFiles ==
  Object(<<Entry(<<"a">>, FileWrapper("w1")),
           Entry(<<"b">>, Array(<<FileWrapper("w2"), FileWrapper("w1"),
                                  Object(<<Entry(<<"c">>, FileWrapper("w1"))>>)>>))>>)
PayloadArray == Object(<<Entry(<<"a">>, Array(<<FileWrapper("w2"), FileWrapper("w1")>>))>>)
UploadPayloads == {PayloadAB, PayloadFile, PayloadFiles, PayloadArray}
Recipients == {"g2"}

\* the trace id (a uuid) of the trace that the remote service holds before
\* the Sdk is constructed; the uuids generated later are 1, 2, ...
ExistingTraceId == 0

\* the secrets an Sdk is constructed with
Secrets == {[email |-> "user", password |-> "pwd"]}
\* the secrets of an Sdk that is used by one caller: credentials, or a
\* signing private key
KeySecrets == Secrets \cup {[privateKey |-> "pemLocal"]}
isPrivateKeySecret(secret) == "privateKey" \in DOMAIN secret

ERROR_QUERY == "graphql request failed"
ERROR_WORKFLOW == "Cannot find workflow"
ERROR_MANY_GROUPS == "More than one group to choose from."
ERROR_NO_GROUP == "No group to choose from."
ERROR_KEY == "Cannot get signing private key"
ERROR_SUBMIT == "createLink request failed"
ERROR_UPLOAD == "upload request failed"
ERROR_NOT_ITERABLE == "undefined is not iterable"
\* the rejection of a request that got no answer: an error with no `response`
ERROR_NETWORK == "request to the trace service failed"
\* the TypeError of `const { status } = err.response` when err.response is
\* undefined
ERROR_NO_RESPONSE == "Cannot destructure property 'status' of 'err.response'"
\* thrown by new sig.SigningPrivateKey when it is given no key it can import
ERROR_PEM == "cannot import private key"
ConfigErrors ==
  {ERROR_QUERY, ERROR_WORKFLOW, ERROR_MANY_GROUPS, ERROR_NO_GROUP, ERROR_KEY, ERROR_PEM}

\* the graphql documents
ConfigQuery == "configQuery"
CreateLinkMutation == "createLinkMutation"
GetHeadLinkQuery == "getHeadLinkQuery"

\* groups { nodes { groupId members { nodes { accountId } } } } of a response
GroupNodes ==
  { <<>>,
    << [groupId |-> "g2", members |-> {"acc2"}], [groupId |-> "g1", members |-> {"acc1", "acc2"}] >>,
    << [groupId |-> "g1", members |-> {"acc1"}], [groupId |-> "g2", members |-> {"acc1"}] >> }

\* what the remote service holds on the account of the caller and on the
\* workflow: account { accountId signingKey { privateKey { passwordProtected
\* decrypted } } user/bot { memberOf } } and workflow { groups }; the workflow
\* may not exist
Services ==
  [accountId : {"acc1"},
   signingKey : {"null", "protected", "decrypted"},
   memberOf : {<<>>, <<{"acc1"}>>},
   workflow : {<<>>} \cup { <<[groups |-> g]>> : g \in GroupNodes }]

\* the answers of the remote service to the config query: a rejection, or a
\* response with the account, and the workflow with the id of its current
\* config
ConfigResponses(srv) ==
  [error : {NoError, ERROR_QUERY},
   accountId : {srv.accountId},
   signingKey : {srv.signingKey},
   memberOf : {srv.memberOf},
   workflow : IF srv.workflow = <<>> THEN {<<>>}
              ELSE { <<[configId |-> c, groups |-> srv.workflow[1].groups]>> :
                     c \in ConfigIds }]

\* new sig.SigningPrivateKey({ pemPrivateKey }) of the js-crypto library, whose
\* code is not part of the repository: given the key of the response it makes
\* a key (TRUE); given `undefined` (the account has no signing key) it makes
\* a key or throws
PemImports(rsp) == IF rsp.signingKey = "null" THEN BOOLEAN ELSE {TRUE}

\* a key resolution that prefers the key of the response
resolveSigningKeyRemoteFirst(secret, signingKey) ==
  IF signingKey = "decrypted" THEN [error |-> NoError, key |-> "pemRemote"]
  ELSE IF isPrivateKeySecret(secret) THEN [error |-> NoError, key |-> secret.privateKey]
  ELSE IF signingKey = "null" THEN [error |-> NoError, key |-> Undefined]
  ELSE [error |-> ERROR_KEY, key |-> Undefined]

\* getConfig, the signing private key: the key of the secret if it holds
\* one, else the key of the response unless it is password protected
resolveSigningKey(secret, signingKey) ==
  IF isPrivateKeySecret(secret) THEN [error |-> NoError, key |-> secret.privateKey]
  ELSE IF signingKey # "protected"
    THEN [error |-> NoError, key |-> IF signingKey = "null" THEN Undefined ELSE "pemRemote"]
  ELSE [error |-> ERROR_KEY, key |-> Undefined]

\* getConfig, from the response to the config: the config to store, or the
\* error thrown
ResolveConfig(o, rsp, imported) ==
  LET workflow == rsp.workflow[1]
      myAccounts == rsp.memberOf
      IsMine(g) == myAccounts # <<>> /\ g.members \cap myAccounts[1] # {}
      myGroups == SelectSeq(workflow.groups, IsMine)
      keyError == resolveSigningKey(o.secret, rsp.signingKey).error # NoError
      key == resolveSigningKey(o.secret, rsp.signingKey).key
  IN IF rsp.error # NoError THEN [error |-> rsp.error, config |-> <<>>]
     ELSE IF rsp.workflow = <<>> THEN [error |-> ERROR_WORKFLOW, config |-> <<>>]
     ELSE IF Len(myGroups) > 1 THEN [error |-> ERROR_MANY_GROUPS, config |-> <<>>]
     ELSE IF Len(myGroups) = 0 THEN [error |-> ERROR_NO_GROUP, config |-> <<>>]
     ELSE IF keyError THEN [error |-> ERROR_KEY, config |-> <<>>]
     ELSE IF ~isPrivateKeySecret(o.secret) /\ ~imported
       THEN [error |-> ERROR_PEM, config |-> <<>>]
     ELSE [error |-> NoError,
           config |-> <<[configId |-> workflow.configId,
                         workflowId |-> o.workflowId,
                         accountId |-> rsp.accountId,
                         groupId |-> myGroups[1].groupId,
                         signingPrivateKey |-> key]>>]

\* link.sign(key, '[version,data,meta]'): one more signature on the link
Sign(link, metadata, key) ==
  [link EXCEPT !.signatures =
     Append(@, [key |-> key, payloadPath |-> "[version,data,meta]",
                signed |-> <<link.data, metadata>>])]

\* the head of the trace that exists before the Sdk is constructed: a first
\* link made by an earlier newTrace
ExistingHead ==
  LET b0 == TraceLinkBuilder([workflowId |-> WorkflowId, parentLink |-> <<>>],
                             ExistingTraceId)
      b1 == withCreatedBy(withGroup(forAttestation(b0, "form1", PayloadAB).builder,
                                    "g1"), "acc1")
      b2 == [b1 EXCEPT !.metadata.configId = "cfg1"]
  IN build([b2 EXCEPT !.link = Sign(b2.link, b2.metadata, "pemLocal")])

----------------------------------------------------------------------------
(* The Sdk: tasks, the config mutex and the calls to client.graphql.        *)
(*                                                                         *)
(* A task is one call of a write operation. Its pc is the await it is      *)
(* suspended at:                                                           *)
(*   idle     not started                                                  *)
(*   head     awaits the answer to the head link query (getHeadLink)       *)
(*   waiting  in getConfig, awaits mutex.acquire() (in the mutex queue)    *)
(*   locked   in getConfig, mutex acquired, body not yet run               *)
(*   query    in getConfig, holds the mutex, awaits the config query       *)
(*   cfgDone  getConfig has returned, the caller has not yet resumed       *)
(*   upload   in uploadFiles, awaits file.info() and client.uploadFiles    *)
(*   submit   in createLink, awaits the answer to the mutation             *)
(*   read     in a read operation, awaits the answer to its query          *)
(*   done / failed   the operation has returned / thrown                   *)
(* stage names the caller of getConfig: "op" (the write operation),        *)
(* "create" (createLink), "refresh" (createLink's getConfig(true)) or      *)
(* "read" (getTracesInStage, searchTraces).                                *)
(* seen is a history field of the getConfig call in progress: the config   *)
(* query that ended while the call waited for the mutex, [stage of its     *)
(* caller, outcome]. rejected is a history field too: the link that the    *)
(* remote service rejected before the retry. upload is a history field as  *)
(* well: the files given to client.uploadFiles, with the number of         *)
(* client.graphql calls made before, and the media records answered.       *)

NoneSeen == [stage |-> "none", outcome |-> "none"]

\* PaginationInfo: first, after, last and before are all optional
NoPage ==
  [first |-> Undefined, after |-> Undefined, last |-> Undefined, before |-> Undefined]

NoInput ==
  [prevLink |-> <<>>, traceId |-> <<>>, action |-> Undefined,
   data |-> UndefinedValue, recipient |-> Undefined, page |-> NoPage]

IdleTask ==
  [pc |-> "idle", kind |-> "none", input |-> NoInput, stage |-> "none",
   firstTry |-> TRUE, cfg |-> <<>>, parentLink |-> <<>>, builder |-> <<>>,
   link |-> <<>>, rejected |-> <<>>, result |-> <<>>, error |-> NoError,
   seen |-> NoneSeen, upload |-> <<>>]

Range(f) == { f[i] : i \in DOMAIN f }

\* a call of client.graphql by task t, not yet answered
Call(t, query, stage) ==
  [task |-> t, query |-> query, stage |-> stage, outcome |-> "pending"]

\* the log of calls once the pending call of task t is answered
Answer(log, t, outcome) ==
  [i \in DOMAIN log |->
     IF log[i].task = t /\ log[i].outcome = "pending"
       THEN [log[i] EXCEPT !.outcome = outcome]
       ELSE log[i]]

\* mutex.acquire() without the mutex: every caller gets in at once
AcquireUnlocked(st, t, stage) ==
  [mutex |-> [st.mutex EXCEPT !.locked = TRUE],
   tasks |-> [st.tasks EXCEPT ![t].pc = "locked", ![t].stage = stage,
                              ![t].seen = NoneSeen]]

\* getConfig called by task t: `await this.mutex.acquire()`. The mutex is
\* given at once when it is free, else the task queues for it (first in,
\* first out). st is the pair [mutex, tasks].
Acquire(st, t, stage) ==
  IF st.mutex.locked
    THEN [mutex |-> [st.mutex EXCEPT !.queue = Append(@, t)],
          tasks |-> [st.tasks EXCEPT ![t].pc = "waiting", ![t].stage = stage,
                                     ![t].seen = NoneSeen]]
    ELSE [mutex |-> [st.mutex EXCEPT !.locked = TRUE],
          tasks |-> [st.tasks EXCEPT ![t].pc = "locked", ![t].stage = stage,
                                     ![t].seen = NoneSeen]]

\* release(): the mutex goes to the first task of the queue, if any
Release(st) ==
  IF st.mutex.queue = <<>>
    THEN [st EXCEPT !.mutex.locked = FALSE]
    ELSE [mutex |-> [st.mutex EXCEPT !.queue = Tail(@)],
          tasks |-> [st.tasks EXCEPT ![Head(st.mutex.queue)].pc = "locked"]]

\* the operation of task t throws e
Failed(st, t, e) == [st EXCEPT !.tasks[t].pc = "failed", !.tasks[t].error = e]

\* a cache check that ignores forceUpdate
UseCachedConfigAlways(cfg, forceUpdate) == cfg # <<>>

\* getConfig: `if (this.config && !forceUpdate)`
UseCachedConfig(cfg, forceUpdate) == cfg # <<>> /\ ~forceUpdate

\* a catch block that rejects the queued callers with the same error
GetConfigCatchAll(st, t, e) ==
  [mutex |-> [locked |-> FALSE, queue |-> <<>>],
   tasks |-> [u \in DOMAIN st.tasks |->
                IF u = t \/ u \in Range(st.mutex.queue)
                  THEN [st.tasks[u] EXCEPT !.pc = "failed", !.error = e]
                  ELSE st.tasks[u]]]

\* a catch block that rethrows and keeps the mutex
GetConfigCatchLocked(st, t, e) == Failed(st, t, e)

\* getConfig's catch block: release, then rethrow
GetConfigCatch(st, t, e) == Release(Failed(st, t, e))

\* a catch block that forgets the cached config
ConfigForgotten(cfg) == <<>>

\* getConfig's catch block assigns nothing to this.config
ConfigKept(cfg) == cfg

\* a retry that is not limited to the first try
ShouldRetryAlways(firstTry, err) == err = ERROR_CONFIG_DEPRECATED

\* createLink's catch block: is the failed submission to be retried
ShouldRetry(firstTry, err) == firstTry /\ err = ERROR_CONFIG_DEPRECATED

\* a retry that keeps the signature of the rejected attempt
KeepSignatures(b) == b

\* link.link.signatures = []: the built link shares its content with the
\* builder that made it
CleanSignatures(b) == [b EXCEPT !.link.signatures = <<>>]

\* builder.withConfigId(configId)
withConfigId(b, configId) == [b EXCEPT !.metadata.configId = configId]

\* new TraceLinkBuilder({ workflowId, parentLink, configId })
NewLinkBuilder(cfg, parentLink, uuid) ==
  withConfigId(TraceLinkBuilder([workflowId |-> cfg.workflowId,
                                 parentLink |-> parentLink], uuid),
               cfg.configId)

\* a forX outcome followed by .withGroup(groupId): not reached when forX threw
ThenWithGroup(out, groupId) ==
  IF out.error # NoError THEN out ELSE Returned(withGroup(out.builder, groupId))

\* a forX outcome followed by .withCreatedBy(accountId)
ThenWithCreatedBy(out, accountId) ==
  IF out.error # NoError THEN out ELSE Returned(withCreatedBy(out.builder, accountId))

\* the link builders that the write operations make
newTraceBuilder(input, cfg, uuid) ==
  ThenWithCreatedBy(
    ThenWithGroup(forAttestation(NewLinkBuilder(cfg, <<>>, uuid), input.action, input.data),
                  cfg.groupId),
    cfg.accountId)

\* an appendLink that builds its link without the parent it was given
appendLinkBuilderDetached(input, parentLink, cfg, uuid) ==
  newTraceBuilder(input, cfg, uuid)

appendLinkBuilder(input, parentLink, cfg, uuid) ==
  ThenWithCreatedBy(
    ThenWithGroup(forAttestation(NewLinkBuilder(cfg, parentLink, uuid), input.action,
                                 input.data),
                  cfg.groupId),
    cfg.accountId)

pushTraceBuilder(input, parentLink, cfg, uuid) ==
  ThenWithCreatedBy(forPushTransfer(NewLinkBuilder(cfg, parentLink, uuid), input.recipient, input.data),
                    cfg.accountId)

pullTraceBuilder(input, parentLink, cfg, uuid) ==
  ThenWithCreatedBy(forPullTransfer(NewLinkBuilder(cfg, parentLink, uuid), cfg.groupId, input.data),
                    cfg.accountId)

acceptTransferBuilder(input, parentLink, cfg, uuid) ==
  ThenWithCreatedBy(
    ThenWithGroup(forAcceptTransfer(NewLinkBuilder(cfg, parentLink, uuid), input.data),
                  cfg.groupId),
    cfg.accountId)

rejectTransferBuilder(input, parentLink, cfg, uuid) ==
  ThenWithCreatedBy(forRejectTransfer(NewLinkBuilder(cfg, parentLink, uuid), input.data),
                    cfg.accountId)

cancelTransferBuilder(input, parentLink, cfg, uuid) ==
  ThenWithCreatedBy(forCancelTransfer(NewLinkBuilder(cfg, parentLink, uuid), input.data),
                    cfg.accountId)

BuilderOf(kind, input, parentLink, cfg, uuid) ==
  CASE kind = "newTrace" -> newTraceBuilder(input, cfg, uuid)
    [] kind = "appendLink" -> appendLinkBuilder(input, parentLink, cfg, uuid)
    [] kind = "pushTrace" -> pushTraceBuilder(input, parentLink, cfg, uuid)
    [] kind = "pullTrace" -> pullTraceBuilder(input, parentLink, cfg, uuid)
    [] kind = "acceptTransfer" -> acceptTransferBuilder(input, parentLink, cfg, uuid)
    [] kind = "rejectTransfer" -> rejectTransferBuilder(input, parentLink, cfg, uuid)
    [] kind = "cancelTransfer" -> cancelTransferBuilder(input, parentLink, cfg, uuid)

\* the inputs a caller may give to an operation, with the links and the
\* trace ids it may name
Inputs(kind, links, ids, payloads) ==
  [prevLink : IF kind = "newTrace" THEN {<<>>} ELSE {<<>>} \cup links,
   traceId : IF kind = "newTrace" THEN {<<>>} ELSE {<<>>} \cup { <<id>> : id \in ids },
   action : IF kind \in AttestationKinds THEN {Undefined} \cup ActionKeys ELSE {Undefined},
   data : payloads,
   recipient : IF kind = "pushTrace" THEN Recipients ELSE {Undefined},
   page : {NoPage}]

\* the read operations; the stage listings are those that getTracesInStage
\* serves
StageKinds ==
  {"getIncomingTraces", "getOutgoingTraces", "getBacklogTraces", "getAttestationTraces"}
ReadKinds == {"getTraceState", "getTraceDetails", "searchTraces"} \cup StageKinds

GetTraceStateQuery == "getTraceStateQuery"
GetTraceDetailsQuery == "getTraceDetailsQuery"
GetTracesInStageQuery == "getTracesInStageQuery"
SearchTracesQuery == "searchTracesQuery"
ReadQueries ==
  {GetTraceStateQuery, GetTraceDetailsQuery, GetTracesInStageQuery, SearchTracesQuery}

ERROR_STAGE_ACTION == "You must and can only provide actionKey when stageType is ATTESTATION"
ERROR_NO_TRACE == "Cannot find trace"
ERROR_NO_STAGE == "No stage"
ERROR_MANY_STAGES == "Multiple stages"

\* the pagination arguments of a caller: none, first with before, first with
\* after, last with before
Pages ==
  {NoPage,
   [NoPage EXCEPT !.first = "5", !.before = "x"],
   [NoPage EXCEPT !.first = "5", !.after = "y"],
   [NoPage EXCEPT !.last = "5", !.before = "y"]}

\* the inputs a caller may give to a read operation
ReadInputs(kind) ==
  [prevLink : {<<>>},
   traceId : IF kind \in {"getTraceState", "getTraceDetails"}
               THEN {<<ExistingTraceId>>} ELSE {<<>>},
   action : IF kind = "getAttestationTraces" THEN {Undefined} \cup ActionKeys
                                              ELSE {Undefined},
   data : {UndefinedValue},
   recipient : {Undefined},
   page : IF kind = "getTraceState" THEN {NoPage} ELSE Pages]

\* the graphql document of a read operation
readQuery(kind) ==
  CASE kind = "getTraceState" -> GetTraceStateQuery
    [] kind = "getTraceDetails" -> GetTraceDetailsQuery
    [] kind = "searchTraces" -> SearchTracesQuery
    [] kind \in StageKinds -> GetTracesInStageQuery

\* read operations that send their query without the config
ReadsConfigNever(kind) == FALSE

\* the read operations that `await this.getConfig()` before their query:
\* getTracesInStage for the group id, searchTraces for the workflow id
ReadsConfig(kind) == kind \in StageKinds \cup {"searchTraces"}

Apply(st) == mutex' = st.mutex /\ tasks' = st.tasks

\* file.info(): the name of the file (its type and its size are left out)
info(file) == IF file.val = "w1" THEN "n1" ELSE "n2"

\* the media service stores a file and answers with the digest of the file
MediaDigest(file) == IF file.val = "w1" THEN "d1" ELSE "d2"

\* an uploadFiles that pairs the records with the ids in the opposite order
uploadFilesReversed(idToFileWrapperMap, media) ==
  [i \in DOMAIN media |->
     <<idToFileWrapperMap[i][1],
       FileRecord(media[Len(media) + 1 - i], info(idToFileWrapperMap[i][2]))>>]

\* uploadFiles, from the answer of client.uploadFiles: `data.map((record,
\* idx) => ...)` makes an entry for each media record, of the id and the file
\* info at the same index (there are no more records than files here: see
\* UploadAnswered)
uploadFiles(idToFileWrapperMap, media) ==
  [i \in DOMAIN media |->
     <<idToFileWrapperMap[i][1], FileRecord(media[i], info(idToFileWrapperMap[i][2]))>>]

\* uploadFilesInLinkData, once the files are uploaded
uploadFilesInLinkData(data, media) ==
  LET maps == extractFileWrappers(data)
  IN assignObjects(data, maps.pathToIdMap, uploadFiles(maps.idToObjectMap, media))

\* an upload of the file found at each path
FilesToUploadPerPath(kind, data) ==
  LET maps == extractFileWrappers(data)
  IN IF kind \in AttestationKinds
       THEN [i \in DOMAIN maps.pathToIdMap |->
               <<maps.pathToIdMap[i][2], MapGet(maps.idToObjectMap, maps.pathToIdMap[i][2])>>]
       ELSE <<>>

\* the files that a write operation uploads before it builds its link: those
\* of the data of newTrace and appendLink
FilesToUpload(kind, data) ==
  IF kind \in AttestationKinds THEN extractFileWrappers(data).idToObjectMap ELSE <<>>

\* the operation builds its link builder with the data and calls createLink
BuildAndCreate(st, t, data, uuid) ==
  LET task == st.tasks[t]
      out == BuilderOf(task.kind, [task.input EXCEPT !.data = data], task.parentLink,
                       task.cfg[1], uuid)
  IN IF out.error # NoError
       THEN Failed(st, t, out.error)
       ELSE Acquire([st EXCEPT !.tasks[t].builder = <<out.builder>>], t, "create")

\* the operation goes on once its parent link is known: the check of the
\* action key (appendLink), then `await this.getConfig()`
AfterHead(st, t, parentLink) ==
  LET st1 == [st EXCEPT !.tasks[t].parentLink = parentLink]
      task == st.tasks[t]
  IN IF task.kind = "appendLink" /\ task.input.action = Undefined
       THEN Failed(st1, t, ERROR_ACTION)
       ELSE Acquire(st1, t, "op")

\* a getHeadLink that asks for the head whenever it is given a trace id
getHeadLinkByTraceId(input) ==
  IF input.traceId # <<>> THEN "traceId"
  ELSE IF input.prevLink # <<>> THEN "prevLink"
  ELSE "none"

\* getHeadLink: where the parent link comes from
getHeadLink(input) ==
  IF input.prevLink # <<>> THEN "prevLink"
  ELSE IF input.traceId # <<>> THEN "traceId"
  ELSE "none"

\* the caller starts a write operation: the code up to its first remote call
\* or mutex.acquire()
Start(t, kind, input) ==
  /\ tasks[t].pc = "idle"
  /\ LET st == [mutex |-> mutex,
                tasks |-> [tasks EXCEPT ![t].kind = kind, ![t].input = input]]
     IN IF kind = "newTrace"
          THEN /\ Apply(IF input.action = Undefined
                          THEN Failed(st, t, ERROR_ACTION)
                          ELSE Acquire(st, t, "op"))
               /\ UNCHANGED graphqlCalls
          ELSE IF getHeadLink(input) = "prevLink"
            THEN /\ Apply(AfterHead(st, t, input.prevLink))
                 /\ UNCHANGED graphqlCalls
          ELSE IF getHeadLink(input) = "traceId"
            THEN /\ Apply([st EXCEPT !.tasks[t].pc = "head"])
                 /\ graphqlCalls' = Append(graphqlCalls, Call(t, GetHeadLinkQuery, "op"))
          ELSE /\ Apply(Failed(st, t, ERROR_HEAD))
               /\ UNCHANGED graphqlCalls
  /\ UNCHANGED <<opts, service, config, traces, nextUuid, bldVars, fileData, groupCall, client>>

\* a task is about to run: its promise is resolved. The answers of the remote
\* service are handled once no task is about to run (an I/O callback runs
\* when the microtask queue is empty).
Runnable == \E t \in DOMAIN tasks : tasks[t].pc \in {"locked", "cfgDone"}

\* the head link query is answered: with the head of the trace, or an error
HeadResponse(t, ok) ==
  /\ tasks[t].pc = "head"
  /\ ~Runnable
  /\ LET st == [mutex |-> mutex, tasks |-> tasks]
     IN IF ok
          THEN /\ Apply(AfterHead(st, t, <<traces[tasks[t].input.traceId[1]]>>))
               /\ graphqlCalls' = Answer(graphqlCalls, t, "ok")
          ELSE /\ Apply(Failed(st, t, ERROR_QUERY))
               /\ graphqlCalls' = Answer(graphqlCalls, t, ERROR_QUERY)
  /\ UNCHANGED <<opts, service, config, traces, nextUuid, bldVars, fileData, groupCall, client>>

\* getConfig after the mutex is acquired: the cached config is returned, or
\* the config query is sent
GetConfig(t) ==
  /\ tasks[t].pc = "locked"
  /\ IF UseCachedConfig(config, tasks[t].stage = "refresh")
       THEN /\ Apply(Release([mutex |-> mutex,
                              tasks |-> [tasks EXCEPT ![t].pc = "cfgDone",
                                                      ![t].cfg = config]]))
            /\ UNCHANGED graphqlCalls
       ELSE /\ tasks' = [tasks EXCEPT ![t].pc = "query"]
            /\ graphqlCalls' = Append(graphqlCalls, Call(t, ConfigQuery, tasks[t].stage))
            /\ UNCHANGED mutex
  /\ UNCHANGED <<opts, service, config, traces, nextUuid, bldVars, fileData, groupCall, client>>

\* the config query is answered: the config is stored and returned, or
\* getConfig throws; the mutex is released either way
ConfigResponse(t, rsp, imported) ==
  /\ tasks[t].pc = "query"
  /\ ~Runnable
  /\ LET r == ResolveConfig(opts, rsp, imported)
         outcome == IF r.error = NoError THEN "ok" ELSE r.error
         noted == [u \in DOMAIN tasks |->
                     IF u \in Range(mutex.queue)
                       THEN [tasks[u] EXCEPT !.seen = [stage |-> tasks[t].stage,
                                                        outcome |-> outcome]]
                       ELSE tasks[u]]
         st == [mutex |-> mutex, tasks |-> noted]
     IN /\ graphqlCalls' = Answer(graphqlCalls, t, outcome)
        /\ IF r.error = NoError
             THEN /\ config' = r.config
                  /\ Apply(Release([st EXCEPT !.tasks[t].pc = "cfgDone",
                                              !.tasks[t].cfg = r.config]))
             ELSE /\ config' = ConfigKept(config)
                  /\ Apply(GetConfigCatch(st, t, r.error))
  /\ UNCHANGED <<opts, service, traces, nextUuid, bldVars, fileData, groupCall, client>>

\* the caller of getConfig resumes with the config returned
AfterGetConfig(t) ==
  /\ tasks[t].pc = "cfgDone"
  /\ LET task == tasks[t]
         cfg == task.cfg[1]
         st == [mutex |-> mutex, tasks |-> [tasks EXCEPT ![t].seen = NoneSeen]]
     IN CASE task.stage = "op" ->
               \* newTrace and appendLink upload the files of the data, if
               \* any; the operation then builds its link builder
               LET files == FilesToUpload(task.kind, task.input.data)
               IN IF files # <<>>
                    THEN /\ tasks' = [st.tasks EXCEPT
                                        ![t].pc = "upload",
                                        ![t].upload = Append(@, [files |-> files,
                                                                 after |-> Len(graphqlCalls),
                                                                 outcome |-> "pending",
                                                                 records |-> <<>>])]
                         /\ UNCHANGED <<mutex, graphqlCalls, nextUuid>>
                    ELSE /\ Apply(BuildAndCreate(st, t, task.input.data, nextUuid + 1))
                         /\ nextUuid' = IF task.parentLink = <<>> THEN nextUuid + 1
                                                                 ELSE nextUuid
                         /\ UNCHANGED graphqlCalls
          [] task.stage = "create" ->
               \* createLink builds the link, signs it and sends the mutation
               LET b == task.builder[1]
                   signed == [b EXCEPT !.link = Sign(b.link, b.metadata,
                                                     cfg.signingPrivateKey)]
               IN /\ tasks' = [st.tasks EXCEPT ![t].pc = "submit",
                                            ![t].builder = <<signed>>,
                                            ![t].link = <<build(signed)>>]
                  /\ graphqlCalls' = Append(graphqlCalls,
                        Call(t, CreateLinkMutation,
                             IF task.firstTry THEN "create" ELSE "retry"))
                  /\ UNCHANGED <<mutex, nextUuid>>
          [] task.stage = "read" ->
               \* getTracesInStage and searchTraces send their query, with
               \* the pagination arguments as they were given
               /\ tasks' = [st.tasks EXCEPT ![t].pc = "read"]
               /\ graphqlCalls' = Append(graphqlCalls, Call(t, readQuery(task.kind), "read"))
               /\ UNCHANGED <<mutex, nextUuid>>
          [] task.stage = "refresh" ->
               \* the retry: signatures cleaned, config id updated, and
               \* createLink(linkBuilder, false)
               LET b == task.builder[1]
                   cleaned == withConfigId(CleanSignatures(b), cfg.configId)
               IN /\ Apply(Acquire([st EXCEPT !.tasks[t].builder = <<cleaned>>,
                                              !.tasks[t].firstTry = FALSE],
                                   t, "create"))
                  /\ UNCHANGED <<graphqlCalls, nextUuid>>
  /\ UNCHANGED <<opts, service, config, traces, bldVars, fileData, groupCall, client>>

\* a failed upload that is ignored: the link is built with the data as given
UploadFailedIgnored(st, t) == BuildAndCreate(st, t, st.tasks[t].input.data, nextUuid + 1)

\* uploadFiles throws, and so do uploadFilesInLinkData and the operation
UploadFailed(st, t) == Failed(st, t, ERROR_UPLOAD)

\* the first n media records of an answer: the digests of the files in the
\* order of the files, then digests of no file
MediaRecords(files, n) ==
  [i \in 1..n |-> IF i \in DOMAIN files THEN MediaDigest(files[i][2]) ELSE "d0"]

\* client.uploadFiles returns n media records, or throws. With a record
\* more than there are files, `const [id, info] = fileInfos[idx]` throws the
\* TypeError of an undefined that is not iterable.
UploadAnswered(t, ok, n) ==
  /\ tasks[t].pc = "upload"
  /\ ~Runnable
  /\ LET task == tasks[t]
         files == task.upload[1].files
         media == MediaRecords(files, n)
         st == [mutex |-> mutex,
                tasks |-> [tasks EXCEPT ![t].upload[1].outcome =
                                          IF ok THEN "ok" ELSE ERROR_UPLOAD,
                                        ![t].upload[1].records =
                                          IF ok THEN media ELSE <<>>]]
     IN IF ok /\ n <= Len(files)
          THEN /\ Apply(BuildAndCreate(st, t, uploadFilesInLinkData(task.input.data, media),
                                       nextUuid + 1))
               /\ nextUuid' = IF task.parentLink = <<>> THEN nextUuid + 1 ELSE nextUuid
        ELSE IF ok
          THEN /\ Apply(Failed(st, t, ERROR_NOT_ITERABLE))
               /\ UNCHANGED nextUuid
          ELSE /\ Apply(UploadFailed(st, t))
               /\ nextUuid' = IF tasks'[t].builder # <<>> /\ task.parentLink = <<>>
                                THEN nextUuid + 1 ELSE nextUuid
  /\ UNCHANGED <<opts, service, config, traces, graphqlCalls, bldVars, fileData, groupCall, client>>

\* the upload is answered: with the media records of the files, in the order
\* of the files, or with an error that uploadFiles throws
UploadResponse(t, ok) ==
  /\ tasks[t].pc = "upload"
  /\ UploadAnswered(t, ok, Len(tasks[t].upload[1].files))

\* the upload is answered with fewer records than files, or with one more
MiscountedUpload(t, n) ==
  /\ tasks[t].pc = "upload"
  /\ n \in 0..(Len(tasks[t].upload[1].files) + 1)
  /\ n # Len(tasks[t].upload[1].files)
  /\ UploadAnswered(t, TRUE, n)

\* Client.graphql, `if (err)`: the error that the call throws when the request
\* is rejected with err. The status is read from err.response before err is
\* rethrown, so an error that carries no response is replaced by the
\* TypeError of that read. (A 401 answer, which is resent once with a new
\* token, is not among the answers drawn here.)
graphqlError(err) == IF err = ERROR_NETWORK THEN ERROR_NO_RESPONSE ELSE err

\* the answers of the remote service to a link submission
SubmitOutcomes == {"ok", ERROR_CONFIG_DEPRECATED, ERROR_SUBMIT}

\* the mutation is answered: the trace state is returned, or the config is
\* refreshed for one retry, or createLink throws
SubmitResponse(t, outcome) ==
  /\ tasks[t].pc = "submit"
  /\ ~Runnable
  /\ graphqlCalls' = Answer(graphqlCalls, t, outcome)
  /\ LET task == tasks[t]
         st == [mutex |-> mutex, tasks |-> tasks]
         link == task.link[1]
     IN IF outcome = "ok"
          THEN /\ tasks' = [tasks EXCEPT ![t].pc = "done", ![t].result = <<link>>]
               /\ traces' = [id \in DOMAIN traces \cup {link.mapId} |->
                               IF id = link.mapId THEN link ELSE traces[id]]
               /\ UNCHANGED mutex
          ELSE /\ Apply(IF ShouldRetry(task.firstTry, graphqlError(outcome))
                          THEN Acquire([st EXCEPT !.tasks[t].rejected = <<link>>],
                                       t, "refresh")
                          ELSE Failed(st, t, graphqlError(outcome)))
               /\ UNCHANGED traces
  /\ UNCHANGED <<opts, service, config, nextUuid, bldVars, fileData, groupCall, client>>

\* the links returned by the operations that are done
Results == { tasks[u].result : u \in { v \in DOMAIN tasks : tasks[v].pc = "done" } }

\* no operation is in flight
Quiet == \A t \in DOMAIN tasks : tasks[t].pc \in {"idle", "done", "failed"}

\* the operations that are started while others are in flight: attestations
\* on new traces and on the existing trace
ConcurrentKinds == {"newTrace", "appendLink"}

StartConcurrent ==
  \E t \in DOMAIN tasks, kind \in ConcurrentKinds :
    \E input \in Inputs(kind, {<<ExistingHead>>}, {ExistingTraceId}, SdkPayloads) :
      Start(t, kind, input)

\* an operation of any kind is started once the operations before it have
\* ended, on the existing trace or on a head that one of them returned
StartChained ==
  /\ Quiet
  /\ \E t \in DOMAIN tasks, kind \in WriteKinds :
       \E input \in Inputs(kind, {<<ExistingHead>>} \cup Results, DOMAIN traces, ChainPayloads) :
         Start(t, kind, input)

Responses ==
  \/ \E t \in DOMAIN tasks, ok \in BOOLEAN : HeadResponse(t, ok)
  \/ \E t \in DOMAIN tasks : GetConfig(t)
  \/ \E t \in DOMAIN tasks, rsp \in ConfigResponses(service) :
       \E imported \in PemImports(rsp) : ConfigResponse(t, rsp, imported)
  \/ \E t \in DOMAIN tasks : AfterGetConfig(t)
  \/ \E t \in DOMAIN tasks, outcome \in SubmitOutcomes : SubmitResponse(t, outcome)

Next == StartConcurrent \/ Responses

Uploads == \E t \in DOMAIN tasks, ok \in BOOLEAN : UploadResponse(t, ok)

NextChain == StartChained \/ Responses \/ Uploads

\* an attestation is started alone, with data that hold no file, one file or
\* several files
StartUpload ==
  /\ \A u \in DOMAIN tasks : tasks[u].pc = "idle"
  /\ \E kind \in AttestationKinds :
       \E input \in Inputs(kind, {<<ExistingHead>>}, {ExistingTraceId}, UploadPayloads) :
         Start(1, kind, input)

\* the caller starts a read operation: the code up to its first remote call
\* or mutex.acquire(). No operation looks at the pagination arguments.
StartRead(t, kind, input) ==
  /\ tasks[t].pc = "idle"
  /\ LET st == [mutex |-> mutex,
                tasks |-> [tasks EXCEPT ![t].kind = kind, ![t].input = input]]
     IN IF ~ReadsConfig(kind)
          THEN /\ Apply([st EXCEPT !.tasks[t].pc = "read"])
               /\ graphqlCalls' = Append(graphqlCalls, Call(t, readQuery(kind), "read"))
          ELSE /\ Apply(IF kind \in StageKinds /\
                            (kind = "getAttestationTraces") # (input.action # Undefined)
                          THEN Failed(st, t, ERROR_STAGE_ACTION)
                          ELSE Acquire(st, t, "read"))
               /\ UNCHANGED graphqlCalls
  /\ UNCHANGED <<opts, service, config, traces, nextUuid, bldVars, fileData, groupCall, client>>

\* the answers of the remote service to the query of a read operation: a
\* rejection, or a response that holds what was asked for, nothing (no
\* trace, no stage) or, for a stage listing, several stages
ReadAnswers(kind) ==
  {"ok", ERROR_QUERY}
    \cup (IF kind = "getTraceState" THEN {"empty"} ELSE {})
    \cup (IF kind \in StageKinds THEN {"empty", "many"} ELSE {})

\* the error that the read operation throws on an answer
readError(kind, rsp) ==
  CASE rsp = "ok" -> NoError
    [] rsp = ERROR_QUERY -> graphqlError(ERROR_QUERY)
    [] rsp = "empty" -> IF kind = "getTraceState" THEN ERROR_NO_TRACE ELSE ERROR_NO_STAGE
    [] rsp = "many" -> ERROR_MANY_STAGES

\* the query of a read operation is answered: the operation returns (the
\* state of the trace for getTraceState; the lists that the other operations
\* return are left out) or throws
ReadResponse(t, rsp) ==
  /\ tasks[t].pc = "read"
  /\ ~Runnable
  /\ graphqlCalls' = Answer(graphqlCalls, t, IF rsp = ERROR_QUERY THEN ERROR_QUERY ELSE "ok")
  /\ LET task == tasks[t]
         st == [mutex |-> mutex, tasks |-> tasks]
     IN Apply(IF readError(task.kind, rsp) # NoError
                THEN Failed(st, t, readError(task.kind, rsp))
                ELSE [st EXCEPT !.tasks[t].pc = "done",
                                !.tasks[t].result =
                                   IF task.kind = "getTraceState"
                                     THEN <<traces[task.input.traceId[1]]>> ELSE <<>>])
  /\ UNCHANGED <<opts, service, config, traces, nextUuid, bldVars, fileData, groupCall, client>>

\* the callers start read operations at any time
StartReads ==
  \E t \in DOMAIN tasks, kind \in ReadKinds :
    \E input \in ReadInputs(kind) : StartRead(t, kind, input)

NextRead ==
  \/ StartReads
  \/ \E t \in DOMAIN tasks : GetConfig(t)
  \/ \E t \in DOMAIN tasks, rsp \in ConfigResponses(service) :
       \E imported \in PemImports(rsp) : ConfigResponse(t, rsp, imported)
  \/ \E t \in DOMAIN tasks : AfterGetConfig(t)
  \/ \E t \in DOMAIN tasks : \E rsp \in ReadAnswers(tasks[t].kind) : ReadResponse(t, rsp)

\* a link submission that gets no answer
NetworkFailures == \E t \in DOMAIN tasks : SubmitResponse(t, ERROR_NETWORK)

NextUpload == StartUpload \/ Responses \/ Uploads \/ NetworkFailures

\* the media service answers any number of records
MiscountedUploads ==
  \E t \in DOMAIN tasks, n \in 0..3 : MiscountedUpload(t, n)

NextMedia == StartUpload \/ Responses \/ Uploads \/ MiscountedUploads

----------------------------------------------------------------------------
(* Specification SpecBuilder: a caller that uses TraceLinkBuilder directly. *)

\* the calls made on the builder under construction: the last forX call
\* (its name, arguments and the error it threw), the argument of the last
\* withGroup call and whether it was made before or after the forX call that
\* succeeded, and the argument of the last withCreatedBy call
NoCall ==
  [op |-> "none", hadParent |-> FALSE, error |-> NoError,
   key |-> Undefined, to |-> Undefined, data |-> UndefinedValue,
   group |-> <<>>, groupAt |-> "none", createdBy |-> <<>>]

----------------------------------------------------------------------------
(* The Client (specification SpecClient): get, post and graphql requests   *)
(* of its callers, the login that they share and the resend after a 401.   *)
(* client is the record [secret, token, issued, mutex, reqs, calls]:       *)
(*   secret  the kind of the secret the Client was constructed with        *)
(*   token   this.token: Undefined or the token of the last login          *)
(*   issued  the number of tokens that the account service has issued      *)
(*   mutex   this.mutex, [locked, queue]                                   *)
(*   reqs    the requests of the callers, one record per request           *)
(*   calls   the calls of fetch and of graphqlRequest, in order            *)
(* The pc of a request:                                                     *)
(*   idle     not started                                                   *)
(*   waiting  in login, awaits mutex.acquire() (in the mutex queue)        *)
(*   locked   in login, mutex acquired, body not yet run                   *)
(*   salt     in loginWithCredentials, awaits the answer to GET /salt      *)
(*   login    awaits the answer to the login request                       *)
(*   authed   login has returned, getAuthorizationHeader has not resumed   *)
(*   sent     awaits the answer to the request itself                      *)
(*   done / failed   the request has returned / thrown                     *)
(* given and cleared are history fields of a request: the options that the *)
(* caller gave, and the value of this.token before each clearToken() of    *)
(* the request.                                                            *)

ClientSecrets == {"credentials", "privateKey", "protectedKey", "unknown"}

ERROR_PROTECTED_KEY == "Authentication via password protected key is not handled"
ERROR_SECRET_FORMAT == "The provided secret does not have the right format"

\* the tokens that the account service issues, in order
TokenNames == <<"t1", "t2", "t3", "t4", "t5", "t6", "t7", "t8">>
\* the token that a caller gives as opts.authToken, and the signed token of
\* loginWithSigningPrivateKey
CallerToken == "of the caller"
SignedToken == "signed"

\* the status of an answer: 2xx, 401, or another failure
Statuses == {"ok", "401", "500"}

\* makeAuthorizationHeader: '' (the empty sequence) without a token
makeAuthorizationHeaderEmpty(token) == <<>>

makeAuthorizationHeader(token) ==
  IF token = Undefined THEN <<>> ELSE <<"Bearer", token>>

\* options: authToken, skipAuth and retry, each of which may be left out
\* (retry is <<>> when it is left out, else <<n>>)
Options(authToken, skipAuth, retry) ==
  [authToken |-> authToken, skipAuth |-> skipAuth, retry |-> retry]

\* defaultFetchOptions and defaultGraphQLOptions
defaultFetchOptions == Options(Undefined, FALSE, <<1>>)
defaultGraphQLOptions == Options(Undefined, FALSE, <<1>>)

\* `opts || defaultFetchOptions`, `opts || defaultGraphQLOptions`: the
\* defaults are used when no options object is given, and only then
optionsOrDefault(method, options) ==
  IF options # <<>> THEN options[1]
  ELSE IF method = "graphql" THEN defaultGraphQLOptions ELSE defaultFetchOptions

\* a resend whatever the retry count
ShouldResendAlways(status, retry) == status = "401"

\* `status === 401 && retry`
ShouldResend(status, retry) == status = "401" /\ retry # <<>> /\ retry[1] # 0

\* a resend that keeps the retry count
retryKept(retry) == retry

\* `{ ...opts, retry: retry - 1 }`: the retry count of the resend
retryLess(retry) == <<retry[1] - 1>>

IdleReq ==
  [pc |-> "idle", method |-> "none", opts |-> <<>>, given |-> <<>>, retry |-> <<>>,
   cleared |-> <<>>, error |-> NoError]

NewClient(secret) ==
  [secret |-> secret, token |-> Undefined, issued |-> 0,
   mutex |-> [locked |-> FALSE, queue |-> <<>>],
   reqs |-> [t \in 1..NumReqs |-> IdleReq],
   calls |-> <<>>]

\* a call of fetch or graphqlRequest for request t, not yet answered
Sent(c, t, url, header) ==
  [c EXCEPT !.calls = Append(@, [task |-> t, url |-> url, header |-> header,
                                 outcome |-> "pending"])]

\* the pending call of request t is answered
Answered(c, t, outcome) ==
  [c EXCEPT !.calls = [i \in DOMAIN @ |->
                         IF @[i].task = t /\ @[i].outcome = "pending"
                           THEN [@[i] EXCEPT !.outcome = outcome] ELSE @[i]]]

\* the request throws e
RequestThrows(c, t, e) == [c EXCEPT !.reqs[t].pc = "failed", !.reqs[t].error = e]

\* login without the mutex: every caller gets in at once
loginAcquireUnlocked(c, t) == [c EXCEPT !.reqs[t].pc = "locked"]

\* login: `await this.mutex.acquire()`
loginAcquire(c, t) ==
  IF c.mutex.locked
    THEN [c EXCEPT !.mutex.queue = Append(@, t), !.reqs[t].pc = "waiting"]
    ELSE [c EXCEPT !.mutex.locked = TRUE, !.reqs[t].pc = "locked"]

\* a login that returns or throws without release()
loginReleaseNever(c) == c

\* release(): the mutex goes to the first request of the queue, if any
loginRelease(c) ==
  IF c.mutex.queue = <<>>
    THEN [c EXCEPT !.mutex.locked = FALSE]
    ELSE [c EXCEPT !.mutex.queue = Tail(@), !.reqs[Head(c.mutex.queue)].pc = "locked"]

\* a login that does not look at the token
TokenHeldNever(token) == FALSE

\* login: `if (this.token)`
TokenHeld(token) == token # Undefined

\* a 401 that leaves the token in place
tokenKept(c) == c

\* clearToken
clearToken(c) == [c EXCEPT !.token = Undefined]

\* the url of the request itself
UrlOf(method) == IF method = "graphql" THEN "graphql" ELSE "route"

\* fetch and graphql up to their first await: the options are read, and
\* getAuthorizationHeader gives the header of opts.authToken, or the empty
\* header of opts.skipAuth, and the request is sent; or it calls login.
\* graphql calls getAuthorizationHeader without options.
fetch(c, t) ==
  LET req == c.reqs[t]
      o == optionsOrDefault(req.method, req.opts)
      c1 == [c EXCEPT !.reqs[t].retry = o.retry]
  IN IF req.method # "graphql" /\ o.authToken # Undefined
       THEN Sent([c1 EXCEPT !.reqs[t].pc = "sent"], t, UrlOf(req.method),
                 makeAuthorizationHeader(o.authToken))
     ELSE IF req.method # "graphql" /\ o.skipAuth
       THEN Sent([c1 EXCEPT !.reqs[t].pc = "sent"], t, UrlOf(req.method),
                 makeAuthorizationHeader(Undefined))
     ELSE loginAcquire(c1, t)

\* the caller calls get, post or graphql
ClientStart(t, method, options) ==
  /\ client.reqs[t].pc = "idle"
  /\ client' = fetch([client EXCEPT !.reqs[t].method = method, !.reqs[t].opts = options,
                                    !.reqs[t].given = options], t)
  /\ UNCHANGED <<bldVars, sdkVars, nextUuid, fileData, groupCall>>

\* a request is about to run: its promise is resolved. The answers of the
\* services are handled once no request is about to run.
ClientRunnable == \E t \in DOMAIN client.reqs : client.reqs[t].pc \in {"locked", "authed"}

\* login after the mutex is acquired: it returns when a token is held, else
\* it sends the first request of the login that fits the secret, or throws
LoginBody(t) ==
  /\ client.reqs[t].pc = "locked"
  /\ client' =
       IF TokenHeld(client.token)
         THEN loginRelease([client EXCEPT !.reqs[t].pc = "authed"])
       ELSE CASE client.secret = "credentials" ->
                   Sent([client EXCEPT !.reqs[t].pc = "salt"], t, "salt",
                        makeAuthorizationHeader(Undefined))
              [] client.secret = "privateKey" ->
                   Sent([client EXCEPT !.reqs[t].pc = "login"], t, "login",
                        makeAuthorizationHeader(SignedToken))
              [] client.secret = "protectedKey" ->
                   loginRelease(RequestThrows(client, t, ERROR_PROTECTED_KEY))
              [] OTHER -> loginRelease(RequestThrows(client, t, ERROR_SECRET_FORMAT))
  /\ UNCHANGED <<bldVars, sdkVars, nextUuid, fileData, groupCall>>

\* GET /salt is answered: the login request is posted, or login throws. The
\* requests of login give options without a retry count.
SaltResponse(t, status) ==
  /\ client.reqs[t].pc = "salt"
  /\ ~ClientRunnable
  /\ LET c == Answered(client, t, status)
         o == optionsOrDefault("get", <<Options(Undefined, TRUE, <<>>)>>)
     IN client' =
          IF status = "ok"
            THEN Sent([c EXCEPT !.reqs[t].pc = "login"], t, "login",
                      makeAuthorizationHeader(Undefined))
          ELSE IF ShouldResend(status, o.retry)
            THEN Sent(clearToken(c), t, "salt", makeAuthorizationHeader(Undefined))
          ELSE loginRelease(RequestThrows(c, t, status))
  /\ UNCHANGED <<bldVars, sdkVars, nextUuid, fileData, groupCall>>

\* the login request is answered: the token is set and login returns, or
\* login throws; the mutex is released either way
LoginResponse(t, status) ==
  /\ client.reqs[t].pc = "login"
  /\ ~ClientRunnable
  /\ status = "ok" => client.issued < Len(TokenNames)
  /\ LET c == Answered(client, t, status)
         o == optionsOrDefault("get", <<Options(SignedToken, FALSE, <<>>)>>)
     IN client' =
          IF status = "ok"
            THEN loginRelease([c EXCEPT !.token = TokenNames[c.issued + 1],
                                        !.issued = @ + 1,
                                        !.reqs[t].pc = "authed"])
          ELSE IF ShouldResend(status, o.retry)
            THEN Sent(clearToken(c), t, "login", c.calls[Len(c.calls)].header)
          ELSE loginRelease(RequestThrows(c, t, status))
  /\ UNCHANGED <<bldVars, sdkVars, nextUuid, fileData, groupCall>>

\* getAuthorizationHeader resumes after login: the header is made of
\* this.token and the request is sent
SendAuthed(t) ==
  /\ client.reqs[t].pc = "authed"
  /\ client' = Sent([client EXCEPT !.reqs[t].pc = "sent"], t,
                    UrlOf(client.reqs[t].method), makeAuthorizationHeader(client.token))
  /\ UNCHANGED <<bldVars, sdkVars, nextUuid, fileData, groupCall>>

\* the request is answered: it returns; or, after a 401 and with a retry
\* count that is not 0, the token is cleared and the request starts again
\* with the count less one; or it throws
RequestResponse(t, status) ==
  /\ client.reqs[t].pc = "sent"
  /\ ~ClientRunnable
  /\ LET c == Answered(client, t, status)
         req == client.reqs[t]
         o == optionsOrDefault(req.method, req.opts)
     IN client' =
          IF status = "ok" THEN [c EXCEPT !.reqs[t].pc = "done"]
          ELSE IF ShouldResend(status, req.retry)
            THEN fetch([clearToken(c) EXCEPT
                          !.reqs[t].opts = <<[o EXCEPT !.retry = retryLess(req.retry)]>>,
                          !.reqs[t].cleared = Append(@, c.token)], t)
          ELSE RequestThrows(c, t, status)
  /\ UNCHANGED <<bldVars, sdkVars, nextUuid, fileData, groupCall>>

\* the options that the callers give: none, a retry count, a token, skipAuth
FetchOpts ==
  {<<>>} \cup { <<Options(Undefined, FALSE, r)>> : r \in {<<>>, <<0>>, <<2>>} }
         \cup {<<Options(CallerToken, FALSE, <<>>)>>, <<Options(Undefined, TRUE, <<>>)>>,
               <<Options(CallerToken, FALSE, <<1>>)>>}
GraphQLOpts ==
  {<<>>} \cup { <<Options(Undefined, FALSE, r)>> : r \in {<<>>, <<0>>, <<2>>} }

ClientStarts ==
  \E t \in DOMAIN client.reqs :
    \/ \E method \in {"get", "post"}, o \in FetchOpts : ClientStart(t, method, o)
    \/ \E o \in GraphQLOpts : ClientStart(t, "graphql", o)

\* the steps of the requests in progress: the continuations that are ready
\* to run and the answers of the services
ClientSteps ==
  \/ \E t \in DOMAIN client.reqs : LoginBody(t)
  \/ \E t \in DOMAIN client.reqs, status \in Statuses : SaltResponse(t, status)
  \/ \E t \in DOMAIN client.reqs, status \in Statuses : LoginResponse(t, status)
  \/ \E t \in DOMAIN client.reqs : SendAuthed(t)
  \/ \E t \in DOMAIN client.reqs, status \in Statuses : RequestResponse(t, status)

NextClient == ClientStarts \/ ClientSteps

----------------------------------------------------------------------------
\* new Sdk(opts), in front of a service that holds one trace
InitSdk ==
  /\ opts \in [workflowId : {WorkflowId}, secret : Secrets]
  /\ service \in Services
  /\ config = <<>>
  /\ mutex = [locked |-> FALSE, queue |-> <<>>]
  /\ tasks = [t \in 1..NumTasks |-> IdleTask]
  /\ graphqlCalls = <<>>
  /\ traces = [id \in {ExistingTraceId} |-> ExistingHead]

InitBld ==
  /\ bld = <<>>
  /\ bldCall = NoCall
  /\ lastBuild = <<>>

\* no data yet
NoFileData ==
  [step |-> "none", data |-> UndefinedValue,
   pathToIdMap |-> <<>>, idToFileWrapperMap |-> <<>>, idToFileRecordMap |-> <<>>,
   newData |-> UndefinedValue,
   pathToIdMap2 |-> <<>>, idToFileRecordMap2 |-> <<>>,
   sameData |-> UndefinedValue,
   given |-> UndefinedValue, givenNew |-> UndefinedValue]

\* no SdkConfig yet
NoGroupCall ==
  [groupLabelToIdMap |-> <<>>, groupLabel |-> Undefined, called |-> FALSE,
   groupLabelParam |-> Undefined, groupId |-> Undefined, error |-> NoError]

Init ==
  InitBld /\ InitSdk /\ nextUuid = 0 /\ fileData = NoFileData /\ groupCall = NoGroupCall
  /\ client = NewClient("privateKey")

\* a builder used on its own: no Sdk takes a step, its options and the remote
\* service do not matter and are held at one value
InitBuilder ==
  /\ Init
  /\ opts = CHOOSE o \in [workflowId : {WorkflowId}, secret : Secrets] : TRUE
  /\ service = CHOOSE srv \in Services : TRUE

\* new TraceLinkBuilder(...): without a parent (the caller starts a new trace
\* and forgets the last one) or on the last link built
BldNew(onParent) ==
  /\ onParent => lastBuild # <<>> /\ lastBuild[1].link.priority < MaxPriority
  /\ LET parentLink == IF onParent THEN <<lastBuild[1].link>> ELSE <<>>
         cfg == [workflowId |-> WorkflowId, parentLink |-> parentLink]
     IN bld' = <<TraceLinkBuilder(cfg, nextUuid + 1)>>
  /\ bldCall' = NoCall
  /\ lastBuild' = IF onParent THEN lastBuild ELSE <<>>
  /\ UNCHANGED <<nextUuid, sdkVars, fileData, groupCall, client>>

\* builder.forX(...): throws and leaves the builder as it is, or updates it.
\* The caller configures a builder for one action: it calls forX until one
\* call succeeds. bldCall records the call and the error thrown.
BldFor(op, key, to, data) ==
  /\ bld # <<>>
  /\ bld[1].link.action = Undefined
  /\ LET out == ApplyFor(bld[1], op, key, to, data)
     IN /\ bld' = <<out.builder>>
        /\ bldCall' = [bldCall EXCEPT !.op = op,
                                      !.hadParent = bld[1].parentLink # <<>>,
                                      !.error = out.error,
                                      !.key = key, !.to = to, !.data = data]
  /\ UNCHANGED <<lastBuild, nextUuid, sdkVars, fileData, groupCall, client>>

BldWithGroup(g) ==
  /\ bld # <<>>
  /\ bld' = <<withGroup(bld[1], g)>>
  /\ bldCall' = [bldCall EXCEPT !.group = <<g>>,
                                !.groupAt = IF bld[1].link.action = Undefined
                                              THEN "before" ELSE "after"]
  /\ UNCHANGED <<lastBuild, nextUuid, sdkVars, fileData, groupCall, client>>

BldWithCreatedBy(a) ==
  /\ bld # <<>>
  /\ bld' = <<withCreatedBy(bld[1], a)>>
  /\ bldCall' = [bldCall EXCEPT !.createdBy = <<a>>]
  /\ UNCHANGED <<lastBuild, nextUuid, sdkVars, fileData, groupCall, client>>

\* builder.build(); the caller keeps the link and drops the builder
BldBuild ==
  /\ bld # <<>>
  /\ lastBuild' = <<[link |-> build(bld[1]), parent |-> bld[1].parentLink,
                      call |-> bldCall]>>
  /\ bld' = <<>>
  /\ UNCHANGED <<bldCall, nextUuid, sdkVars, fileData, groupCall, client>>

NextBuilder ==
  \/ \E onParent \in BOOLEAN : BldNew(onParent)
  \/ \E op \in ForOps, key \in ActionKeys, to \in Groups, data \in Payloads :
       BldFor(op, key, to, data)
  \/ \E g \in Groups : BldWithGroup(g)
  \/ \E a \in Accounts : BldWithCreatedBy(a)
  \/ BldBuild

SpecBuilder == InitBuilder /\ [][NextBuilder]_vars

\* one Sdk whose callers start operations at any time
Spec == Init /\ [][Next]_vars

\* one Sdk whose caller runs one operation after the other
SpecChain == Init /\ [][NextChain]_vars

\* one Sdk whose callers read
SpecRead == Init /\ [][NextRead]_vars

\* new Client(opts): no Sdk takes a step
InitClient ==
  /\ InitBld /\ InitSdk /\ nextUuid = 0 /\ fileData = NoFileData /\ groupCall = NoGroupCall
  /\ opts = CHOOSE o \in [workflowId : {WorkflowId}, secret : Secrets] : TRUE
  /\ service = CHOOSE srv \in Services : TRUE
  /\ \E secret \in ClientSecrets : client = NewClient(secret)

\* one Client whose callers send requests at any time
SpecClient == InitClient /\ [][NextClient]_vars

\* an Sdk whose callers write, or a Client whose callers send requests: the
\* one that takes the first step takes them all. The promises that are
\* resolved run their continuations, and every remote call is answered: a
\* step of an operation or of a request in progress is taken as long as one
\* can be.
SdkIdle == \A t \in DOMAIN tasks : tasks[t].pc = "idle"
ClientIdle == \A t \in DOMAIN client.reqs : client.reqs[t].pc = "idle"

\* the remote service holds a workflow with one group of the caller
LiveService ==
  [accountId |-> "acc1", signingKey |-> "decrypted", memberOf |-> <<{"acc1"}>>,
   workflow |-> <<[groups |-> << [groupId |-> "g2", members |-> {"acc2"}],
                                 [groupId |-> "g1", members |-> {"acc1", "acc2"}] >>]>>]

InitLive ==
  /\ InitBld /\ InitSdk /\ nextUuid = 0 /\ fileData = NoFileData /\ groupCall = NoGroupCall
  /\ opts = CHOOSE o \in [workflowId : {WorkflowId}, secret : Secrets] : TRUE
  /\ service = LiveService
  /\ \E secret \in ClientSecrets : client = NewClient(secret)

\* the requests of the callers: with the default options, or without
\* authentication
LiveClientStarts ==
  \E t \in DOMAIN client.reqs :
    \/ \E o \in {<<>>, <<Options(Undefined, TRUE, <<>>)>>} : ClientStart(t, "get", o)
    \/ ClientStart(t, "graphql", <<>>)

\* the operations of the callers: the first caller starts a trace, the
\* others append a link to the trace that exists. (The client of the Sdk
\* takes no step here: the Sdk is looked at next to one client only.)
LiveSdkStarts ==
  \E t \in DOMAIN tasks :
    LET kind == IF t = 1 THEN "newTrace" ELSE "appendLink"
    IN \E input \in Inputs(kind, {}, {ExistingTraceId}, SdkPayloads) :
         /\ input.action # Undefined
         /\ kind = "appendLink" => input.traceId # <<>>
         /\ Start(t, kind, input)

LiveStarts ==
  \/ ClientIdle /\ client.secret = "privateKey" /\ LiveSdkStarts
  \/ SdkIdle /\ LiveClientStarts

LiveSteps ==
  \/ ClientIdle /\ Responses
  \/ SdkIdle /\ ClientSteps

NextLive == LiveStarts \/ LiveSteps

SpecLive == InitLive /\ [][NextLive]_vars /\ WF_vars(LiveSteps)

----------------------------------------------------------------------------
(* extractObjects and assignObjects used on their own, as the tests of the *)
(* helpers use them (specification SpecFiles): file wrappers or file       *)
(* records are extracted from some data; or the wrappers are extracted,    *)
(* records are assigned in their place, the records are extracted and the  *)
(* wrappers are assigned back.                                             *)

W1 == FileWrapper("w1")
W2 == FileWrapper("w2")
\* two records of one digest under two names, and a plain object that has
\* the fields of a record and a field that holds a record
R1 == FileRecord("d1", "n1")
R1b == FileRecord("d1", "n2")
RN == [FileRecord("d2", "n1") EXCEPT !.kids = <<Entry(<<"a">>, R1)>>]

\* the values that the data hold
FileLeaves == {UndefinedValue, NullValue, Scalar("s"), W1, W2, R1, R1b, RN}
Nested ==
  FileLeaves
    \cup { Array(<<x>>) : x \in {W1, R1, Scalar("s")} }
    \cup { Array(<<Scalar("s"), x>>) : x \in {W1, R1} }
    \cup { Object(<<Entry(<<"a">>, x)>>) : x \in {W2, R1b, Scalar("s")} }

\* the data: a value, an array or an object of up to MaxWidth values, nested
\* up to three levels
MaxWidth == 2
FileTrees ==
  FileLeaves
    \cup { Array(values) : values \in UNION { [1..n -> Nested] : n \in 0..MaxWidth } }
    \cup { Object(<<Entry(<<"a">>, x)>>) : x \in Nested }
    \cup { Object(<<Entry(<<"a">>, x), Entry(<<"b">>, y)>>) : x \in Nested, y \in Nested }
    \cup { Object(<<Entry(<<"b">>, Array(<<Scalar("s"), W1, Object(<<Entry(<<"a">>, x)>>)>>)),
                    Entry(<<"a">>, Object(<<Entry(<<"b">>, y)>>))>>) :
           x \in {W1, W2, R1}, y \in {W1, Scalar("s")} }

\* no builder and no Sdk takes a step
InitFiles ==
  /\ InitBld /\ InitSdk /\ nextUuid = 0 /\ groupCall = NoGroupCall
  /\ client = NewClient("privateKey")
  /\ opts = CHOOSE o \in [workflowId : {WorkflowId}, secret : Secrets] : TRUE
  /\ service = CHOOSE srv \in Services : TRUE
  /\ \E data \in FileTrees : fileData = [NoFileData EXCEPT !.step = "data", !.data = data, !.given = data]

\* extractFileWrappers(data)
ExtractWrappers ==
  /\ fileData.step = "data"
  /\ LET maps == extractFileWrappers(fileData.data)
     IN fileData' = [fileData EXCEPT !.step = "wrappers",
                                     !.pathToIdMap = maps.pathToIdMap,
                                     !.idToFileWrapperMap = maps.idToObjectMap]
  /\ UNCHANGED <<bldVars, sdkVars, nextUuid, groupCall, client>>

\* extractFileRecords(data)
ExtractRecords ==
  /\ fileData.step = "data"
  /\ LET maps == extractFileRecords(fileData.data)
     IN fileData' = [fileData EXCEPT !.step = "records",
                                     !.pathToIdMap2 = maps.pathToIdMap,
                                     !.idToFileRecordMap2 = maps.idToObjectMap]
  /\ UNCHANGED <<bldVars, sdkVars, nextUuid, groupCall, client>>

\* a record is made for every wrapper, its digest is the id of the wrapper,
\* and the records are assigned in the data
AssignRecords ==
  /\ fileData.step = "wrappers"
  /\ LET idToFileRecordMap ==
           [i \in DOMAIN fileData.idToFileWrapperMap |->
              <<fileData.idToFileWrapperMap[i][1],
                fromObject(FileRecord(fileData.idToFileWrapperMap[i][1], "data.txt"))>>]
     IN fileData' = [fileData EXCEPT
                       !.step = "assigned",
                       !.idToFileRecordMap = idToFileRecordMap,
                       !.data = assignedData(fileData.data, fileData.pathToIdMap,
                                             idToFileRecordMap),
                       !.newData = assignObjects(fileData.data, fileData.pathToIdMap,
                                                 idToFileRecordMap)]
  /\ UNCHANGED <<bldVars, sdkVars, nextUuid, groupCall, client>>

\* extractFileRecords(newData)
ExtractAssigned ==
  /\ fileData.step = "assigned"
  /\ LET maps == extractFileRecords(fileData.newData)
     IN fileData' = [fileData EXCEPT !.step = "extracted",
                                     !.pathToIdMap2 = maps.pathToIdMap,
                                     !.idToFileRecordMap2 = maps.idToObjectMap]
  /\ UNCHANGED <<bldVars, sdkVars, nextUuid, groupCall, client>>

\* the wrappers are assigned back in the new data
AssignWrappers ==
  /\ fileData.step = "extracted"
  /\ fileData' = [fileData EXCEPT
                    !.step = "done",
                    !.givenNew = fileData.newData,
                    !.newData = assignedData(fileData.newData, fileData.pathToIdMap,
                                             fileData.idToFileWrapperMap),
                    !.sameData = assignObjects(fileData.newData, fileData.pathToIdMap,
                                               fileData.idToFileWrapperMap)]
  /\ UNCHANGED <<bldVars, sdkVars, nextUuid, groupCall, client>>

NextFiles ==
  \/ ExtractWrappers
  \/ ExtractRecords
  \/ AssignRecords
  \/ ExtractAssigned
  \/ AssignWrappers

SpecFiles == InitFiles /\ [][NextFiles]_vars

\* an Sdk constructed with credentials or with a private key
InitUpload ==
  /\ InitBld /\ nextUuid = 0 /\ fileData = NoFileData /\ groupCall = NoGroupCall
  /\ client = NewClient("privateKey")
  /\ opts \in [workflowId : {WorkflowId}, secret : KeySecrets]
  /\ service \in Services
  /\ config = <<>>
  /\ mutex = [locked |-> FALSE, queue |-> <<>>]
  /\ tasks = [t \in 1..NumTasks |-> IdleTask]
  /\ graphqlCalls = <<>>
  /\ traces = [id \in {ExistingTraceId} |-> ExistingHead]

SpecUpload == InitUpload /\ [][NextUpload]_vars

\* one attestation at a time, in front of a media service that answers any
\* number of records
SpecMedia == InitUpload /\ [][NextMedia]_vars

----------------------------------------------------------------------------
(* Specification SpecConfig: an SdkConfig and calls of its groupId method,  *)
(* as in the tests of SdkConfig.                                            *)

ERROR_MULTIPLE_GROUPS ==
  "Multiple groups to select from, please specify the group label you wish to perform the action with."
ERROR_NO_GROUP_TO_SELECT ==
  "No group to select from. At least one group is required to perform an action."

\* the labels of the groups, a label that no group has, and the id of the
\* group of a label
GroupLabels == {"l1", "l2", "l3"}
OtherLabel == "lx"
GroupIdOfLabel(label) ==
  CASE label = "l1" -> "g1" [] label = "l2" -> "g2" [] label = "l3" -> "g3"

\* this.groupLabelToIdMap[label]: undefined when no group has the label
LabelToId(groupLabelToIdMap, label) ==
  IF \E i \in DOMAIN groupLabelToIdMap : groupLabelToIdMap[i][1] = label
    THEN groupLabelToIdMap[CHOOSE i \in DOMAIN groupLabelToIdMap :
                             groupLabelToIdMap[i][1] = label][2]
    ELSE Undefined

\* a selection that takes the first group when there are several
getGroupIdByLabelFirst(cfg, groupLabelParam) ==
  IF cfg.groupLabelToIdMap = <<>>
    THEN [error |-> ERROR_NO_GROUP_TO_SELECT, groupId |-> Undefined]
    ELSE [error |-> NoError, groupId |-> cfg.groupLabelToIdMap[1][2]]

\* SdkConfig.getGroupIdByLabel: the group id returned, or the error thrown
getGroupIdByLabel(cfg, groupLabelParam) ==
  LET groupLabelToIdMapSize == Len(cfg.groupLabelToIdMap)
      configured == IF cfg.groupLabel = Undefined THEN Undefined
                    ELSE LabelToId(cfg.groupLabelToIdMap, cfg.groupLabel)
      multiple == /\ groupLabelToIdMapSize > 1
                  /\ groupLabelParam = Undefined
                  /\ configured = Undefined
      resultGroupId ==
        IF groupLabelToIdMapSize = 0 THEN Undefined
        ELSE IF groupLabelParam # Undefined
          THEN LabelToId(cfg.groupLabelToIdMap, groupLabelParam)
        ELSE IF groupLabelToIdMapSize = 1 THEN cfg.groupLabelToIdMap[1][2]
        ELSE configured
  IN IF multiple THEN [error |-> ERROR_MULTIPLE_GROUPS, groupId |-> Undefined]
     ELSE IF resultGroupId = Undefined
       THEN [error |-> ERROR_NO_GROUP_TO_SELECT, groupId |-> Undefined]
     ELSE [error |-> NoError, groupId |-> resultGroupId]

\* SdkConfig.groupId(groupLabel): `groupLabel || null`
groupId(cfg, groupLabel) ==
  getGroupIdByLabel(cfg, IF groupLabel = "" THEN Undefined ELSE groupLabel)

\* the maps from label to group id: up to three groups, in any order
GroupMaps ==
  LET Group(label) == <<label, GroupIdOfLabel(label)>>
      Distinct(map) == \A i, j \in DOMAIN map : i # j => map[i] # map[j]
  IN { map \in UNION { [1..n -> { Group(label) : label \in GroupLabels }] : n \in 0..Cardinality(GroupLabels) } :
         Distinct(map) }

\* new SdkConfig(workflowId, configId, accountId, groupLabelToIdMap, key)
InitConfig ==
  /\ InitBld /\ InitSdk /\ nextUuid = 0 /\ fileData = NoFileData
  /\ opts = CHOOSE o \in [workflowId : {WorkflowId}, secret : Secrets] : TRUE
  /\ service = CHOOSE srv \in Services : TRUE
  /\ \E map \in GroupMaps : groupCall = [NoGroupCall EXCEPT !.groupLabelToIdMap = map]
  /\ client = NewClient("privateKey")

\* config.groupLabel = label
CfgSetGroupLabel(label) ==
  /\ groupCall' = [NoGroupCall EXCEPT !.groupLabelToIdMap = groupCall.groupLabelToIdMap,
                                      !.groupLabel = label]
  /\ UNCHANGED <<bldVars, sdkVars, nextUuid, fileData, client>>

\* config.groupId(groupLabel)
CfgGroupId(groupLabel) ==
  /\ LET out == groupId(groupCall, groupLabel)
     IN groupCall' = [groupCall EXCEPT !.called = TRUE,
                                      !.groupLabelParam = groupLabel,
                                      !.groupId = out.groupId,
                                      !.error = out.error]
  /\ UNCHANGED <<bldVars, sdkVars, nextUuid, fileData, client>>

NextConfig ==
  \/ \E label \in GroupLabels \cup {OtherLabel} : CfgSetGroupLabel(label)
  \/ \E label \in GroupLabels \cup {OtherLabel, Undefined} : CfgGroupId(label)

SpecConfig == InitConfig /\ [][NextConfig]_vars

----------------------------------------------------------------------------
(* Claims about TraceLinkBuilder, checked under SpecBuilder. *)

\* C8: every link built by TraceLinkBuilder has outDegree 1; built with a
\* parent P it has priority P.priority + 1 and previous-link hash hash(P);
\* built without a parent it has priority 1 and an empty previous-link hash.
C8_BuiltLinkIsChained ==
  lastBuild # <<>> =>
    LET l == lastBuild[1].link
        p == lastBuild[1].parent
    IN /\ l.outDegree = 1
       /\ p # <<>> => /\ l.priority = p[1].priority + 1
                      /\ l.prevLinkHash = LinkHash(p[1])
       /\ p = <<>> => /\ l.priority = 1
                      /\ l.prevLinkHash = EmptyHash

\* a link built on a parent that was itself built by the builder
C8_Witness ==
  /\ lastBuild # <<>>
  /\ lastBuild[1].parent # <<>>
  /\ lastBuild[1].link.priority = 2
  /\ lastBuild[1].link.prevLinkHash # EmptyHash

\* C10: on a builder constructed without a parent link each of forPushTransfer,
\* forPullTransfer, forCancelTransfer, forRejectTransfer and forAcceptTransfer
\* throws 'Parent link must be provided' (and leaves no action set), while
\* forAttestation throws nothing.
C10_ParentRequired ==
  /\ (bldCall.op \in ParentOps /\ ~bldCall.hadParent) =>
        /\ bldCall.error = ERROR_PARENT
        /\ bld # <<>> => bld[1].link.action = Undefined
  /\ (bldCall.op = "forAttestation" /\ ~bldCall.hadParent) =>
        /\ bldCall.error = NoError
        /\ bld # <<>> => bld[1].link.action \in ActionKeys

\* forAcceptTransfer has thrown on a builder without a parent
C10_Witness ==
  /\ bldCall.op = "forAcceptTransfer"
  /\ ~bldCall.hadParent
  /\ bldCall.error = ERROR_PARENT

\* forAttestation has succeeded on a builder without a parent
C10_WitnessAttestation ==
  /\ bldCall.op = "forAttestation"
  /\ ~bldCall.hadParent
  /\ bldCall.error = NoError

----------------------------------------------------------------------------
(* Claims about the Sdk, checked under Spec. *)

\* the positions in the log of the calls of a graphql document
CallsTo(query) == { i \in DOMAIN graphqlCalls : graphqlCalls[i].query = query }

\* the calls of task t, in order
CallsOf(t) == SelectSeq(graphqlCalls, LAMBDA c : c.task = t)

\* the calls as <<document, outcome>> pairs
Brief(calls) == [i \in DOMAIN calls |-> <<calls[i].query, calls[i].outcome>>]

\* the tasks that hold the mutex: getConfig between acquire and release
Holders == { t \in DOMAIN tasks : tasks[t].pc \in {"locked", "query"} }

\* only newTrace was started, no config query failed and no submission was
\* rejected as deprecated
C1_Case ==
  /\ \A t \in DOMAIN tasks : tasks[t].kind \in {"none", "newTrace"}
  /\ \A i \in CallsTo(ConfigQuery) : graphqlCalls[i].outcome \in {"pending", "ok"}
  /\ \A i \in CallsTo(CreateLinkMutation) :
       graphqlCalls[i].outcome # ERROR_CONFIG_DEPRECATED

\* C1: when only newTrace calls are started on a new Sdk, config resolution
\* succeeds and no submission is rejected as deprecated, at most one config
\* query is issued, it is answered before any submission is sent, and once
\* all N calls have returned the log is one config query followed by N
\* submissions.
C1_OneConfigQuery ==
  C1_Case =>
    /\ Cardinality(CallsTo(ConfigQuery)) <= 1
    /\ \A i \in CallsTo(CreateLinkMutation) :
         \E j \in CallsTo(ConfigQuery) : j < i /\ graphqlCalls[j].outcome = "ok"
    /\ (\A t \in DOMAIN tasks : tasks[t].pc = "done") =>
         /\ Len(graphqlCalls) = NumTasks + 1
         /\ CallsTo(ConfigQuery) = {1}
         /\ CallsTo(CreateLinkMutation) = 2..(NumTasks + 1)

\* every task runs newTrace and all of them await the answer to their
\* submission at the same time, after one config query
C1_Witness ==
  /\ C1_Case
  /\ \A t \in DOMAIN tasks : tasks[t].kind = "newTrace" /\ tasks[t].pc = "submit"
  /\ Len(graphqlCalls) = NumTasks + 1

\* C2: at most one getConfig call is between acquiring the mutex and releasing
\* it, and the mutex is locked exactly while there is one.
C2_OneHolder ==
  /\ Cardinality(Holders) <= 1
  /\ mutex.locked <=> Holders # {}
  /\ \A t \in DOMAIN tasks : tasks[t].pc = "waiting" => mutex.locked

\* a forced refresh awaits its config query while every other task is in
\* getConfig too, waiting for the mutex
C2_Witness ==
  \E t \in DOMAIN tasks :
    /\ tasks[t].pc = "query"
    /\ tasks[t].stage = "refresh"
    /\ \A u \in DOMAIN tasks \ {t} : tasks[u].pc = "waiting"

\* the operation of task t was the only one on the Sdk; its first submission
\* was rejected as deprecated and its resubmission succeeded
C3_Case(t) ==
  /\ tasks[t].pc = "done"
  /\ ~tasks[t].firstTry
  /\ \A i \in DOMAIN graphqlCalls : graphqlCalls[i].task = t

\* the calls of the stale-config retry
RetryCalls ==
  << <<ConfigQuery, "ok">>, <<CreateLinkMutation, ERROR_CONFIG_DEPRECATED>>,
     <<ConfigQuery, "ok">>, <<CreateLinkMutation, "ok">> >>

\* the claim as stated: the remote calls of the operation are the config
\* query, the failed submission, the config-refresh query and the successful
\* resubmission
C3_AsStated ==
  \A t \in DOMAIN tasks :
    C3_Case(t) => /\ tasks[t].result # <<>>
                  /\ Brief(graphqlCalls) = RetryCalls

\* the operation looks the head link up: it was given a trace id and no
\* previous link
LooksUpHead(t) ==
  /\ tasks[t].kind # "newTrace"
  /\ tasks[t].input.prevLink = <<>>

\* C3: for a write operation on a new Sdk whose first submission is rejected
\* as deprecated and whose resubmission succeeds, the caller receives the
\* result, and the remote calls are, in this order: the head link query when
\* the operation was given a trace id only, then one config query, one failed
\* submission, one config-refresh query, one successful resubmission.
C3_RetryCallOrder ==
  \A t \in DOMAIN tasks :
    C3_Case(t) =>
      /\ tasks[t].result = tasks[t].link
      /\ tasks[t].result # <<>>
      /\ Brief(graphqlCalls) =
           IF LooksUpHead(t) THEN << <<GetHeadLinkQuery, "ok">> >> \o RetryCalls
                             ELSE RetryCalls
      /\ graphqlCalls[Len(graphqlCalls) - 1].stage = "refresh"

\* an appendLink given a trace id only has been retried with success
C3_Witness ==
  \E t \in DOMAIN tasks :
    /\ C3_Case(t)
    /\ LooksUpHead(t)
    /\ Len(graphqlCalls) = 5

\* C4: a write operation submits its link at most twice and refreshes the
\* config at most once; when the resubmission is rejected as deprecated too
\* the operation throws that error and makes no further call.
C4_OneRetry ==
  \A t \in DOMAIN tasks :
    LET calls == CallsOf(t)
        submitted == { i \in DOMAIN calls : calls[i].query = CreateLinkMutation }
        refreshed == { i \in DOMAIN calls : calls[i].query = ConfigQuery
                                            /\ calls[i].stage = "refresh" }
    IN /\ Cardinality(submitted) <= 2
       /\ Cardinality(refreshed) <= 1
       /\ \A i \in submitted :
            (calls[i].stage = "retry" /\ calls[i].outcome = ERROR_CONFIG_DEPRECATED)
              => /\ i = Len(calls)
                 /\ tasks[t].pc = "failed"
                 /\ tasks[t].error = ERROR_CONFIG_DEPRECATED

\* an operation has thrown the deprecated error of its resubmission
C4_Witness ==
  \E t \in DOMAIN tasks :
    /\ tasks[t].pc = "failed"
    /\ tasks[t].error = ERROR_CONFIG_DEPRECATED
    /\ ~tasks[t].firstTry
    /\ Len(SelectSeq(CallsOf(t), LAMBDA c : c.query = CreateLinkMutation)) = 2

\* the config-refresh queries of task t
RefreshQueries(t) ==
  { i \in CallsTo(ConfigQuery) :
      graphqlCalls[i].task = t /\ graphqlCalls[i].stage = "refresh" }

\* task t requested a forced refresh and waited for the mutex while the
\* refresh of another task succeeded
SawRefresh(t) ==
  /\ tasks[t].stage = "refresh"
  /\ tasks[t].seen = [stage |-> "refresh", outcome |-> "ok"]

SawFailure(t) ==
  /\ tasks[t].seen.outcome \in ConfigErrors
  /\ tasks[t].pc \notin {"waiting", "locked"}

LastIsOwnConfigQuery(t, outcome) ==
  LET calls == CallsOf(t)
  IN /\ calls # <<>>
     /\ calls[Len(calls)].query = ConfigQuery
     /\ calls[Len(calls)].outcome = outcome

C7_FailureStoresNothing ==
  /\ config # <<>> <=>
       \E i \in CallsTo(ConfigQuery) : graphqlCalls[i].outcome = "ok"
  /\ mutex.locked <=> Holders # {}
  /\ mutex.queue # <<>> => mutex.locked
  /\ \A t \in DOMAIN tasks :
       /\ tasks[t].pc = "cfgDone" => tasks[t].cfg # <<>> /\ tasks[t].cfg = config
       /\ (tasks[t].pc = "query" /\ tasks[t].stage # "refresh") => config = <<>>

\* the first config resolution has failed, nothing is stored, the mutex is
\* free and the next operation has issued a new config query
C7_Witness ==
  /\ Len(graphqlCalls) >= 2
  /\ graphqlCalls[1].query = ConfigQuery
  /\ graphqlCalls[1].outcome \in ConfigErrors
  /\ graphqlCalls[1].stage = "op"
  /\ tasks[graphqlCalls[1].task].pc = "failed"
  /\ config = <<>>
  /\ \E i \in CallsTo(ConfigQuery) :
       /\ graphqlCalls[i].task # graphqlCalls[1].task
       /\ graphqlCalls[i].outcome = "pending"

----------------------------------------------------------------------------
(* Claims about chains of operations, checked under SpecChain. *)

\* the links that exist: the head of the existing trace and the links that
\* the operations returned
Links == {ExistingHead} \cup { r[1] : r \in Results }

\* the link that l was built on
ParentOf(l) == CHOOSE p \in Links : LinkHash(p) = l.prevLinkHash

\* the first link of the trace of l, and the position of l in its trace
RECURSIVE FirstLink(_)
FirstLink(l) == IF l.prevLinkHash = EmptyHash THEN l ELSE FirstLink(ParentOf(l))

RECURSIVE Position(_)
Position(l) == IF l.prevLinkHash = EmptyHash THEN 1 ELSE 1 + Position(ParentOf(l))

\* C9: along a sequence of write operations each chained on the head returned
\* by the one before, every link carries the trace id of the first link of
\* the sequence, the k-th link has priority k and its previous-link hash is
\* the hash of link k-1; the first link has an empty previous-link hash.
C9_ChainedOperations ==
  \A t \in DOMAIN tasks :
    tasks[t].pc = "done" =>
      LET l == tasks[t].result[1]
          p == tasks[t].parentLink
      IN /\ (tasks[t].kind = "newTrace") <=> (l.prevLinkHash = EmptyHash)
         /\ p = <<>> => l.priority = 1 /\ l.prevLinkHash = EmptyHash
         /\ p # <<>> => /\ p[1] \in Links
                        /\ l.prevLinkHash = LinkHash(p[1])
                        /\ l.priority = p[1].priority + 1
                        /\ l.mapId = p[1].mapId
         /\ l.priority = Position(l)
         /\ l.mapId = FirstLink(l).mapId

\* a transfer was made on the head that a newTrace returned
C9_Witness ==
  \E t, u \in DOMAIN tasks :
    /\ tasks[u].pc = "done" /\ tasks[u].kind = "newTrace"
    /\ tasks[t].pc = "done" /\ tasks[t].kind = "pushTrace"
    /\ tasks[t].parentLink = tasks[u].result
    /\ tasks[t].result[1].priority = 2
    /\ tasks[t].result[1].mapId = tasks[u].result[1].mapId

\* task t runs appendLink with a trace id and no previous link, and has built
\* its link
AppendsById(t) ==
  /\ tasks[t].kind = "appendLink"
  /\ tasks[t].input.prevLink = <<>>
  /\ tasks[t].input.traceId # <<>>
  /\ tasks[t].link # <<>>

\* C11: writes to one trace are not serialized by the client: an appendLink
\* given only a trace id looks the head up once and builds its link on the
\* head it has read (previous-link hash = hash of that head, priority = its
\* priority + 1), also when another write has moved the head since; so two
\* such calls that have read the same head submit links with the same
\* previous-link hash and the same priority.
C11_WritesNotSerialized ==
  \A t \in DOMAIN tasks :
    AppendsById(t) =>
      LET l == tasks[t].link[1]
          h == tasks[t].parentLink[1]
      IN /\ Len(SelectSeq(CallsOf(t), LAMBDA c : c.query = GetHeadLinkQuery)) = 1
         /\ l.prevLinkHash = LinkHash(h)
         /\ l.priority = h.priority + 1
         /\ l.mapId = tasks[t].input.traceId[1]
         /\ \A u \in DOMAIN tasks :
              (AppendsById(u) /\ tasks[u].parentLink = tasks[t].parentLink)
                => /\ tasks[u].link[1].prevLinkHash = l.prevLinkHash
                   /\ tasks[u].link[1].priority = l.priority

\* two appendLink calls on the same trace id have read the same head; the
\* link of one was accepted and is the head now, the other awaits the answer
\* to the submission of a link on the old head
C11_Witness ==
  \E t, u \in DOMAIN tasks :
    /\ t # u
    /\ AppendsById(t) /\ AppendsById(u)
    /\ tasks[t].input.traceId = tasks[u].input.traceId
    /\ tasks[t].parentLink = tasks[u].parentLink
    /\ tasks[t].pc = "done"
    /\ traces[tasks[t].input.traceId[1]] = tasks[t].result[1]
    /\ tasks[u].pc = "submit"
    /\ tasks[u].link[1].prevLinkHash = tasks[t].result[1].prevLinkHash
    /\ tasks[u].link[1].priority = tasks[t].result[1].priority

----------------------------------------------------------------------------
(* Claims about the forX calls of TraceLinkBuilder, checked under          *)
(* SpecBuilder.                                                            *)

\* a forX call was made on the builder and returned
Succeeded(call) == call.op # "none" /\ call.error = NoError

\* the action and the process state that each forX call fixes
ActionOf(call) ==
  CASE call.op = "forAttestation" -> call.key
    [] call.op = "forPushTransfer" -> "_PUSH_OWNERSHIP_"
    [] call.op = "forPullTransfer" -> "_PULL_OWNERSHIP_"
    [] call.op = "forCancelTransfer" -> "_CANCEL_TRANSFER_"
    [] call.op = "forRejectTransfer" -> "_REJECT_TRANSFER_"
    [] call.op = "forAcceptTransfer" -> "_ACCEPT_TRANSFER_"

StateOf(call) ==
  CASE call.op = "forPushTransfer" -> "PUSHING"
    [] call.op = "forPullTransfer" -> "PULLING"
    [] OTHER -> "OWNED"

InputsOf(call) ==
  IF call.op \in {"forPushTransfer", "forPullTransfer"} THEN <<call.to>> ELSE <<>>

\* C12: a forX call that returns fixes the action and the process state of
\* the link: forAttestation the action key and OWNED, forPushTransfer
\* _PUSH_OWNERSHIP_ and PUSHING, forPullTransfer _PULL_OWNERSHIP_ and
\* PULLING, forCancelTransfer, forRejectTransfer and forAcceptTransfer their
\* own action and OWNED; metadata.inputs is [recipient] after a push or a
\* pull and absent after the four others. This holds of the builder after
\* the call and of the link it builds.
C12_ActionAndState ==
  /\ (bld # <<>> /\ Succeeded(bldCall)) =>
        /\ bld[1].link.action = ActionOf(bldCall)
        /\ bld[1].link.processState = StateOf(bldCall)
        /\ bld[1].metadata.inputs = InputsOf(bldCall)
  /\ (lastBuild # <<>> /\ Succeeded(lastBuild[1].call)) =>
        /\ lastBuild[1].link.action = ActionOf(lastBuild[1].call)
        /\ lastBuild[1].link.processState = StateOf(lastBuild[1].call)
        /\ lastBuild[1].link.metadata.inputs = InputsOf(lastBuild[1].call)

\* a link built after forPullTransfer, on a parent built after forCancelTransfer
C12_Witness ==
  /\ lastBuild # <<>>
  /\ Succeeded(lastBuild[1].call)
  /\ lastBuild[1].call.op = "forPullTransfer"
  /\ lastBuild[1].link.metadata.inputs = <<lastBuild[1].call.to>>
  /\ lastBuild[1].parent # <<>>
  /\ lastBuild[1].parent[1].action = "_CANCEL_TRANSFER_"
  /\ lastBuild[1].parent[1].metadata.inputs = <<>>

C13_WitnessAccept ==
  /\ lastBuild # <<>>
  /\ Succeeded(lastBuild[1].call)
  /\ lastBuild[1].call.op = "forAcceptTransfer"
  /\ lastBuild[1].call.group = <<>>
  /\ lastBuild[1].parent[1].metadata.groupId \in Groups
  /\ lastBuild[1].link.metadata.groupId = Undefined

\* no forX call has returned on the builder that made the last link
NoForCall(call) == ~Succeeded(call)

\* C14 as stated: build() yields no link when no forX call was made on the
\* builder, so every link built has an action.
C14_AsStated ==
  lastBuild # <<>> => ~NoForCall(lastBuild[1].call)

\* C14: build() does not fail when no forX call was made: the builder has no
\* default action, and the link it yields has no action, no process state,
\* no data and no form data; it is chained as every built link is.
C14_BuildWithoutAction ==
  (lastBuild # <<>> /\ NoForCall(lastBuild[1].call)) =>
    LET l == lastBuild[1].link
        p == lastBuild[1].parent
    IN /\ l # <<>>
       /\ l.action = Undefined
       /\ l.processState = Undefined
       /\ l.data = <<>>
       /\ l.formData = UndefinedValue
       /\ l.metadata.formId = Undefined
       /\ l.outDegree = 1
       /\ l.priority = IF p = <<>> THEN 1 ELSE p[1].priority + 1

\* a link built on a parent by a builder that got only with* calls
C14_Witness ==
  /\ lastBuild # <<>>
  /\ lastBuild[1].call.op = "none"
  /\ lastBuild[1].call.group # <<>>
  /\ lastBuild[1].call.createdBy # <<>>
  /\ lastBuild[1].parent # <<>>
  /\ lastBuild[1].link.action = Undefined
  /\ lastBuild[1].link.priority = 2

\* the forX calls that set the group of the parent on the builder
GroupFromParent ==
  {"forPushTransfer", "forPullTransfer", "forCancelTransfer", "forRejectTransfer"}

\* the withGroup call on the builder of the last link was undone by the forX
\* call made after it
GroupOverwritten(call) ==
  Succeeded(call) /\ call.op \in GroupFromParent /\ call.groupAt = "before"

\* C15 as stated: the built link has the group given to withGroup and the
\* account given to withCreatedBy, wherever these calls were made before
\* build().
C15_AsStated ==
  lastBuild # <<>> =>
    LET l == lastBuild[1].link
        call == lastBuild[1].call
    IN /\ call.group # <<>> => l.metadata.groupId = call.group[1]
       /\ call.createdBy # <<>> => l.metadata.createdById = call.createdBy[1]

\* C15: the built link has the account given to withCreatedBy wherever that
\* call was made before build(), and the group given to withGroup when that
\* call was made after the forX call, or when the forX call is forAttestation
\* or forAcceptTransfer; a withGroup call made before forPushTransfer,
\* forPullTransfer, forCancelTransfer or forRejectTransfer is overwritten
\* with the group of the parent.
C15_SettersAndOrder ==
  lastBuild # <<>> =>
    LET l == lastBuild[1].link
        call == lastBuild[1].call
    IN /\ call.createdBy # <<>> => l.metadata.createdById = call.createdBy[1]
       /\ call.createdBy = <<>> => l.metadata.createdById = Undefined
       /\ (call.group # <<>> /\ ~GroupOverwritten(call))
            => l.metadata.groupId = call.group[1]
       /\ GroupOverwritten(call)
            => l.metadata.groupId = lastBuild[1].parent[1].metadata.groupId

\* withGroup, then forAcceptTransfer on a parent without a group, then
\* withCreatedBy: the link has the group and the account of the calls
C15_Witness ==
  /\ lastBuild # <<>>
  /\ Succeeded(lastBuild[1].call)
  /\ lastBuild[1].call.op = "forAcceptTransfer"
  /\ lastBuild[1].call.groupAt = "before"
  /\ lastBuild[1].call.createdBy # <<>>
  /\ lastBuild[1].parent[1].metadata.groupId = Undefined
  /\ lastBuild[1].link.metadata.groupId = lastBuild[1].call.group[1]
  /\ lastBuild[1].link.metadata.createdById = lastBuild[1].call.createdBy[1]

\* withGroup, then forPushTransfer on a parent without a group: the link has
\* no group
C15_WitnessOverwritten ==
  /\ lastBuild # <<>>
  /\ GroupOverwritten(lastBuild[1].call)
  /\ lastBuild[1].call.group # <<>>
  /\ lastBuild[1].link.metadata.groupId = Undefined

----------------------------------------------------------------------------
(* Claims about the retry of createLink, checked under Spec.               *)

\* task t has sent its link a second time
Resubmitted(t) ==
  /\ tasks[t].rejected # <<>>
  /\ \E i \in DOMAIN graphqlCalls :
       /\ graphqlCalls[i].task = t
       /\ graphqlCalls[i].query = CreateLinkMutation
       /\ graphqlCalls[i].stage = "retry"

\* a link without its config id and its signatures
Unsigned(l) == [l EXCEPT !.signatures = <<>>, !.metadata.configId = Undefined]

\* C17: in the retry after a deprecated config the link sent again differs
\* from the rejected link in its config id and its signature only: trace id,
\* priority, previous-link hash, action, process state, data and the other
\* metadata are the same; the signature of the rejected attempt is cleared
\* before the link is signed again, and the link sent again has exactly one
\* signature, made over the metadata with the new config id.
C17_RetryKeepsTheLink ==
  \A t \in DOMAIN tasks :
    /\ Resubmitted(t) =>
         LET l == tasks[t].link[1]
             r == tasks[t].rejected[1]
         IN /\ Unsigned(l) = Unsigned(r)
            /\ l.mapId = r.mapId /\ l.priority = r.priority
            /\ l.prevLinkHash = r.prevLinkHash
            /\ l.action = r.action /\ l.processState = r.processState
            /\ l.data = r.data /\ l.formData = r.formData
            /\ Len(r.signatures) = 1
            /\ Len(l.signatures) = 1
            /\ l.signatures[1].signed = <<l.data, l.metadata>>
    /\ (tasks[t].rejected # <<>> /\ ~tasks[t].firstTry /\ ~Resubmitted(t)) =>
         tasks[t].builder[1].link.signatures = <<>>

\* a link is sent again with another config id than the rejected link had
C17_Witness ==
  \E t \in DOMAIN tasks :
    /\ Resubmitted(t)
    /\ tasks[t].pc = "done"
    /\ tasks[t].kind = "appendLink"
    /\ tasks[t].link[1].metadata.configId # tasks[t].rejected[1].metadata.configId
    /\ tasks[t].link[1].signatures # tasks[t].rejected[1].signatures
    /\ Len(tasks[t].link[1].signatures) = 1

\* a payload with other fields than PayloadAB and PayloadBA
PayloadA == Object(<<Entry(<<"a">>, Scalar("x"))>>)

\* C16: forAttestation(key, payload) with a payload sets the data of the
\* link to {algo: 'sha256', hash: the digest of the canonical serialization
\* of the payload}: the digest is the digest of every payload that is
\* deep-equal to it, whatever the order in which its keys were inserted, and
\* of no other payload; the form data of the built link is the payload as it
\* was passed in.
C16_DigestOfPayload ==
  (/\ lastBuild # <<>>
   /\ Succeeded(lastBuild[1].call)
   /\ lastBuild[1].call.op = "forAttestation"
   /\ Truthy(lastBuild[1].call.data)) =>
    LET l == lastBuild[1].link
        payload == lastBuild[1].call.data
    IN /\ Len(l.data) = 1
       /\ l.data[1].algo = "sha256"
       /\ \A p \in {PayloadAB, PayloadBA, PayloadA} :
            DeepEqual(p, payload) <=> l.data[1].hash = HashData(p)
       /\ l.formData = payload

\* two attestations in a row whose payloads differ in the order of their
\* keys only: the links have the same digest and each has its own form data
C16_Witness ==
  /\ lastBuild # <<>>
  /\ Succeeded(lastBuild[1].call)
  /\ lastBuild[1].call.op = "forAttestation"
  /\ lastBuild[1].call.data = PayloadBA
  /\ lastBuild[1].parent # <<>>
  /\ lastBuild[1].parent[1].formData = PayloadAB
  /\ lastBuild[1].link.formData = PayloadBA
  /\ lastBuild[1].link.data = lastBuild[1].parent[1].data
  /\ lastBuild[1].link.data # <<>>

----------------------------------------------------------------------------
(* Claims about extractObjects and assignObjects, checked under SpecFiles. *)
(* A place in the data is the sequence of the steps from the root: step    *)
(* [index |-> TRUE, key |-> digits] into an array, [index |-> FALSE,       *)
(* key |-> key] into an object.                                            *)

\* the places of the matching values that are below no other matching value,
\* depth first
RECURSIVE Matching(_, _)
Matching(data, which) ==
  LET step(i) == [index |-> data.type = "array",
                  key |-> IF data.type = "array" THEN Digits(i - 1) ELSE data.kids[i].key]
      below(i) == LET m == Matching(data.kids[i].value, which)
                  IN [j \in DOMAIN m |-> <<step(i)>> \o m[j]]
      RECURSIVE Each(_)
      Each(i) == IF i > Len(data.kids) THEN <<>> ELSE below(i) \o Each(i + 1)
  IN IF Predicate(which, data) THEN << <<>> >>
     ELSE IF data.type \in {"array", "object"} THEN Each(1)
     ELSE <<>>

\* the path of a place: [index] for a step into an array, .key for a step
\* into an object, the key alone when it is the first step
RECURSIVE PathOf(_, _)
PathOf(place, path) ==
  IF place = <<>> THEN path
  ELSE PathOf(Tail(place),
              IF Head(place).index THEN path \o <<"[">> \o Head(place).key \o <<"]">>
              ELSE IF path = <<>> THEN Head(place).key
              ELSE path \o <<".">> \o Head(place).key)

\* the value at a place
RECURSIVE ValueAt(_, _)
ValueAt(data, place) ==
  IF place = <<>> THEN data
  ELSE ValueAt(GetProp(data, Head(place).key), Tail(place))

\* what was extracted in this state, from what, and by which predicate
Extracted ==
  CASE fileData.step = "wrappers" ->
         [which |-> "wrapper", data |-> fileData.data,
          pathToIdMap |-> fileData.pathToIdMap,
          idToObjectMap |-> fileData.idToFileWrapperMap]
    [] fileData.step = "records" ->
         [which |-> "record", data |-> fileData.data,
          pathToIdMap |-> fileData.pathToIdMap2,
          idToObjectMap |-> fileData.idToFileRecordMap2]
    [] fileData.step = "extracted" ->
         [which |-> "record", data |-> fileData.newData,
          pathToIdMap |-> fileData.pathToIdMap2,
          idToObjectMap |-> fileData.idToFileRecordMap2]

HasExtracted == fileData.step \in {"wrappers", "records", "extracted"}

\* one path per matching value, in the order of a depth-first visit, formed
\* as the claim says, and mapped to the id of the value at that place
PathsAsClaimed(x) ==
  LET places == Matching(x.data, x.which)
  IN /\ Len(x.pathToIdMap) = Len(places)
     /\ \A i \in DOMAIN places :
          /\ x.pathToIdMap[i][1] = PathOf(places[i], <<>>)
          /\ x.pathToIdMap[i][2] = ValueAt(x.data, places[i]).val
          /\ Predicate(x.which, ValueAt(x.data, places[i]))
     /\ \A i, j \in DOMAIN places : i # j => x.pathToIdMap[i][1] # x.pathToIdMap[j][1]
     /\ x.data.type \in {"undefined", "null", "scalar"} => x.pathToIdMap = <<>>

\* C19 as stated: for each recorded path, the id-to-object map holds, under
\* the id of that path, exactly the object found at that path.
C19_AsStated ==
  HasExtracted =>
    LET x == Extracted
        places == Matching(x.data, x.which)
    IN /\ PathsAsClaimed(x)
       /\ \A i \in DOMAIN places :
            MapGet(x.idToObjectMap, x.pathToIdMap[i][2]) = ValueAt(x.data, places[i])

\* C19: extract visits the data depth first and records one path per
\* matching value: the path of the parent followed by [index] for an element
\* of an array and by .key for a field of an object (the key alone at the
\* root); a matching value is recorded and not visited further; undefined,
\* null and scalars give no entry. For each recorded path the id-to-object
\* map holds, under the id of that path: the file wrapper found at that
\* path, when file wrappers are extracted; the file record made of the
\* digest and the file information of the last visited object that has this
\* id, when file records are extracted (which is the object found at that
\* path when it is a file record of these fields only and no other object
\* has its digest).
C19_ExtractedPaths ==
  HasExtracted =>
    LET x == Extracted
        places == Matching(x.data, x.which)
        SameId(i) == { j \in DOMAIN places : x.pathToIdMap[j][2] = x.pathToIdMap[i][2] }
        Last(i) == CHOOSE j \in SameId(i) : \A k \in SameId(i) : k <= j
    IN /\ PathsAsClaimed(x)
       /\ \A i \in DOMAIN places :
            LET found == ValueAt(x.data, places[i])
                held == MapGet(x.idToObjectMap, x.pathToIdMap[i][2])
            IN /\ x.which = "wrapper" => held = found
               /\ x.which = "record" =>
                    /\ held = fromObject(ValueAt(x.data, places[Last(i)]))
                    /\ (found.kids = <<>> /\ \A j \in SameId(i) :
                                               ValueAt(x.data, places[j]) = found)
                         => held = found
       /\ Len(x.idToObjectMap) =
            Cardinality({ x.pathToIdMap[i][2] : i \in DOMAIN x.pathToIdMap })

\* wrappers extracted from an object that holds an array: a wrapper in the
\* array below a field and the same wrapper at a field of the root
C19_Witness ==
  /\ fileData.step = "wrappers"
  /\ fileData.data.type = "object"
  /\ Len(fileData.pathToIdMap) = 2
  /\ fileData.pathToIdMap[1] = <<<<"a", "[", "1", "]">>, "w1">>
  /\ fileData.pathToIdMap[2] = <<<<"b">>, "w1">>
  /\ fileData.idToFileWrapperMap = << <<"w1", W1>> >>

\* records extracted from a plain object that has the fields of a record and
\* holds a record: the record below it is not recorded
C19_WitnessNotDescended ==
  /\ fileData.step = "records"
  /\ fileData.data = Array(<<RN>>)
  /\ fileData.pathToIdMap2 = << <<<<"[", "0", "]">>, "d2">> >>

\* the data is made of objects and arrays, and the files in it are file
\* wrappers
HoldsWrappersOnly(data) ==
  data.type \in {"object", "array"} /\ Matching(data, "record") = <<>>

\* C20: round trip. For data made of objects and arrays (at any level,
\* the root too) that hold file wrappers: the wrappers are extracted, file
\* records are assigned in their place, the records are extracted, which
\* gives the same path-to-id map, and the wrappers are assigned back: the
\* result is deep-equal to the data.
C20_RoundTrip ==
  (fileData.step = "done" /\ HoldsWrappersOnly(fileData.data)) =>
    /\ fileData.pathToIdMap2 = fileData.pathToIdMap
    /\ DeepEqual(fileData.sameData, fileData.data)

\* the round trip gives back the data unless the data is an array that holds
\* a file wrapper: of such an array assignObjects makes an object whose keys
\* are the indexes, the records are extracted from it under other paths, and
\* the result of the round trip is that object
C20_RoundTripBelowTheRoot ==
  (fileData.step = "done" /\ HoldsWrappersOnly(fileData.data)) =>
    LET data == fileData.data
        rootArray == data.type = "array" /\ fileData.pathToIdMap # <<>>
    IN /\ ~rootArray =>
            /\ fileData.pathToIdMap2 = fileData.pathToIdMap
            /\ DeepEqual(fileData.sameData, data)
            /\ \A i \in DOMAIN fileData.pathToIdMap :
                 isFileRecord(ValueAt(fileData.newData,
                                      Matching(data, "wrapper")[i]))
       /\ rootArray =>
            /\ fileData.newData.type = "object"
            /\ fileData.sameData.type = "object"
            /\ fileData.pathToIdMap2 # fileData.pathToIdMap
            /\ ~DeepEqual(fileData.sameData, data)
            /\ \A i \in DOMAIN data.kids :
                 DeepEqual(GetProp(fileData.sameData, Digits(i - 1)), data.kids[i].value)

\* the round trip of an object that holds one wrapper twice, in an array
\* below a field and in an object below another field
C20_Witness ==
  /\ fileData.step = "done"
  /\ fileData.data.type = "object"
  /\ fileData.pathToIdMap =
       << <<<<"b", "[", "1", "]">>, "w1">>, <<<<"b", "[", "2", "]", ".", "a">>, "w2">>,
          <<<<"a", ".", "b">>, "w1">> >>
  /\ fileData.newData # fileData.data
  /\ DeepEqual(fileData.sameData, fileData.data)

\* the round trip of an array that holds a file wrapper and a scalar
C20_WitnessRootArray ==
  /\ fileData.step = "done"
  /\ fileData.data = Array(<<Scalar("s"), W1>>)
  /\ fileData.pathToIdMap = << <<<<"[", "1", "]">>, "w1">> >>
  /\ fileData.pathToIdMap2 = << <<<<"1">>, "w1">> >>
  /\ fileData.sameData =
       Object(<<Entry(<<"0">>, Scalar("s")), Entry(<<"1">>, W1)>>)


\* the operation of task t has built its link builder, from data that hold a
\* file wrapper
BuiltWithFile(t) ==
  /\ tasks[t].builder # <<>>
  /\ Matching(tasks[t].input.data, "wrapper") # <<>>

\* the data that task t gives to its link builder hold a record in place of
\* each file wrapper, and were uploaded after the config was resolved and
\* before the link was built and submitted
UploadedBeforeHashed(t) ==
  LET b == tasks[t].builder[1]
      data == tasks[t].input.data
      files == extractFileWrappers(data).idToObjectMap
      media == [i \in DOMAIN files |-> MediaDigest(files[i][2])]
      uploaded == uploadFilesInLinkData(data, media)
      Mine(c) == c.task = t
      before == SelectSeq(SubSeq(graphqlCalls, 1, tasks[t].upload[1].after), Mine)
  IN /\ tasks[t].upload # <<>>
     /\ tasks[t].cfg # <<>>
     /\ tasks[t].upload[1].files = files
     /\ Matching(b.formData, "wrapper") = <<>>
     /\ Len(Matching(b.formData, "record")) = Len(Matching(data, "wrapper"))
     /\ b.formData = uploaded
     /\ b.link.data = <<[algo |-> "sha256", hash |-> HashData(uploaded)]>>
     /\ \A i \in DOMAIN before : before[i].query # CreateLinkMutation
     /\ tasks[t].link # <<>> => tasks[t].link[1].formData = uploaded

\* C18: in every write operation that carries a payload (newTrace,
\* appendLink, pushTrace, pullTrace, acceptTransfer, rejectTransfer,
\* cancelTransfer) the file wrappers of the payload are uploaded and replaced
\* by file records before the payload is hashed into the link, after the
\* config is resolved and before the link is built, signed and submitted.
C18_UploadInEveryOperation ==
  \A t \in DOMAIN tasks : BuiltWithFile(t) => UploadedBeforeHashed(t)

\* the same, of newTrace and appendLink alone; the five other operations
\* upload nothing and hash the payload as it was given
C18_UploadInAttestations ==
  \A t \in DOMAIN tasks :
    BuiltWithFile(t) =>
      IF tasks[t].kind \in AttestationKinds
        THEN UploadedBeforeHashed(t)
        ELSE /\ tasks[t].upload = <<>>
             /\ tasks[t].builder[1].formData = tasks[t].input.data
             /\ tasks[t].builder[1].link.data =
                  <<[algo |-> "sha256", hash |-> HashData(tasks[t].input.data)]>>

\* a newTrace has returned a link whose form data hold the record of the file
\* it uploaded, and a pushTrace on that link has returned a link whose form
\* data still hold the file wrapper
C18_Witness ==
  \E t, u \in DOMAIN tasks :
    /\ tasks[t].kind = "newTrace" /\ tasks[t].pc = "done"
    /\ BuiltWithFile(t) /\ UploadedBeforeHashed(t)
    /\ GetProp(tasks[t].result[1].formData, <<"f">>) = FileRecord("d1", "n1")
    /\ tasks[u].kind = "pushTrace" /\ tasks[u].pc = "done"
    /\ tasks[u].input.prevLink = tasks[t].result
    /\ GetProp(tasks[u].result[1].formData, <<"f">>) = FileWrapper("w1")


\* the key paths of the values that are not arrays or objects, and of the
\* empty arrays and objects
RECURSIVE LeafKeys(_)
LeafKeys(data) ==
  IF data.type \in {"object", "array"} /\ data.kids # <<>>
    THEN UNION { { <<IF data.type = "array" THEN Digits(i - 1) ELSE data.kids[i].key>> \o p :
                   p \in LeafKeys(data.kids[i].value) } : i \in DOMAIN data.kids }
    ELSE { <<>> }

\* the value at a key path
RECURSIVE GetAt(_, _)
GetAt(data, keys) ==
  IF keys = <<>> THEN data ELSE GetAt(GetProp(data, Head(keys)), Tail(keys))

\* the assignments made so far: the data given, the data as they are after
\* the call, the result, and the maps
Assignments ==
  (IF fileData.step \in {"assigned", "extracted", "done"}
     THEN {[given |-> fileData.given, after |-> fileData.data,
            result |-> fileData.newData, pathToIdMap |-> fileData.pathToIdMap,
            idToObjectMap |-> fileData.idToFileRecordMap]}
     ELSE {})
  \cup
  (IF fileData.step = "done"
     THEN {[given |-> fileData.givenNew, after |-> fileData.newData,
            result |-> fileData.sameData, pathToIdMap |-> fileData.pathToIdMap,
            idToObjectMap |-> fileData.idToFileWrapperMap]}
     ELSE {})

\* the result differs from the data given at the paths of the map, and only
\* there
DiffersAtPaths(x) ==
  LET paths == { castPath(x.pathToIdMap[i][1]) : i \in DOMAIN x.pathToIdMap }
  IN /\ \A i \in DOMAIN x.pathToIdMap :
          /\ GetAt(x.result, castPath(x.pathToIdMap[i][1]))
               = MapGet(x.idToObjectMap, x.pathToIdMap[i][2])
          /\ GetAt(x.given, castPath(x.pathToIdMap[i][1])) # 
               MapGet(x.idToObjectMap, x.pathToIdMap[i][2])
     /\ LeafKeys(x.result) = LeafKeys(x.given)
     /\ \A p \in LeafKeys(x.given) \ paths : GetAt(x.result, p) = GetAt(x.given, p)

WrapperIds(data) ==
  { ValueAt(data, place).val : place \in Range(Matching(data, "wrapper")) }

\* the operation of task t is past its call of uploadFilesInLinkData
PastUpload(t) ==
  tasks[t].upload # <<>> \/ tasks[t].builder # <<>>

\* C22: for one payload all the file wrappers found are uploaded in a single
\* batched upload call, in which each distinct wrapper appears exactly once,
\* even when the same wrapper occurs at several paths; a payload that holds
\* no file wrapper causes no upload call.
C22_OneBatchedUpload ==
  \A t \in DOMAIN tasks :
    LET ids == WrapperIds(tasks[t].input.data)
        calls == tasks[t].upload
    IN /\ Len(calls) <= 1
       /\ ids = {} => calls = <<>>
       /\ (ids # {} /\ PastUpload(t)) =>
            /\ Len(calls) = 1
            /\ Len(calls[1].files) = Cardinality(ids)
            /\ { calls[1].files[i][2] : i \in DOMAIN calls[1].files }
                 = { FileWrapper(id) : id \in ids }

\* an operation is done whose data hold one wrapper at three paths and
\* another wrapper: two files were uploaded in one call; and an operation is
\* done that uploaded nothing
C22_Witness ==
  /\ tasks[1].pc = "done"
  /\ Len(Matching(tasks[1].input.data, "wrapper")) = 4
  /\ Len(tasks[1].upload) = 1
  /\ Len(tasks[1].upload[1].files) = 2

C22_WitnessNoFile ==
  /\ tasks[1].pc = "done"
  /\ Matching(tasks[1].input.data, "wrapper") = <<>>
  /\ tasks[1].upload = <<>>

\* C23: the i-th record answered by the upload is paired with the id and the
\* file info of the i-th file uploaded, so that every path of the payload
\* receives the record of the wrapper that stood at that path: the digest
\* answered for that file, with the name of that file.
C23_RecordOfTheWrapperAtThePath ==
  \A t \in DOMAIN tasks :
    (tasks[t].builder # <<>> /\ tasks[t].upload # <<>>) =>
      LET data == tasks[t].input.data
          files == tasks[t].upload[1].files
          places == Matching(data, "wrapper")
      IN /\ \A i \in DOMAIN places :
              LET w == ValueAt(data, places[i])
              IN ValueAt(tasks[t].builder[1].formData, places[i])
                   = FileRecord(MediaDigest(w), info(w))
         /\ \A i \in DOMAIN files :
              MapGet(uploadFiles(files, [j \in DOMAIN files |-> MediaDigest(files[j][2])]),
                     files[i][1])
                = FileRecord(MediaDigest(files[i][2]), info(files[i][2]))

\* the link submitted holds the record of w2 at a[0] and that of w1 at a[1]
C23_Witness ==
  /\ tasks[1].pc = "done"
  /\ tasks[1].input.data = PayloadArray
  /\ LET a == GetProp(tasks[1].result[1].formData, <<"a">>)
     IN /\ GetProp(a, <<"0">>) = FileRecord("d2", "n2")
        /\ GetProp(a, <<"1">>) = FileRecord("d1", "n1")

\* C24: when the file upload of a write operation fails, the operation fails
\* with that one error: no payload with records is produced, no link is
\* built, signed or submitted, and the payload of the caller still holds its
\* file wrappers.
C24_UploadFailureAborts ==
  \A t \in DOMAIN tasks :
    (tasks[t].upload # <<>> /\ tasks[t].upload[1].outcome = ERROR_UPLOAD) =>
      /\ tasks[t].pc = "failed"
      /\ tasks[t].error = ERROR_UPLOAD
      /\ tasks[t].builder = <<>>
      /\ tasks[t].link = <<>>
      /\ tasks[t].result = <<>>
      /\ \A i \in DOMAIN graphqlCalls :
           graphqlCalls[i].task = t => graphqlCalls[i].query # CreateLinkMutation
      /\ \A id \in DOMAIN traces : traces[id] = ExistingHead
      /\ WrapperIds(tasks[t].input.data) = { f[2].val : f \in Range(tasks[t].upload[1].files) }

\* the upload of two files of an appendLink has failed
C24_Witness ==
  /\ tasks[1].kind = "appendLink"
  /\ tasks[1].pc = "failed"
  /\ tasks[1].error = ERROR_UPLOAD
  /\ Len(tasks[1].upload[1].files) = 2
  /\ tasks[1].builder = <<>>


\* the head link queries of task t
HeadQueriesOf(t) ==
  LET IsHead(c) == c.query = GetHeadLinkQuery IN SelectSeq(CallsOf(t), IsHead)

\* C25: an operation that appends to a trace takes as parent the prevLink it
\* is given and makes no head link query, even when it is given a trace id as
\* well; given a trace id alone it makes exactly one head link query, before
\* it resolves the config and before it submits; given neither it fails with
\* 'Previous link or trace id must be provided' and makes no remote call.
C25_ParentResolution ==
  \A t \in DOMAIN tasks :
    tasks[t].kind \in WriteKinds \ {"newTrace"} =>
      LET input == tasks[t].input
          mine == CallsOf(t)
      IN /\ input.prevLink # <<>> =>
              /\ HeadQueriesOf(t) = <<>>
              /\ tasks[t].parentLink = input.prevLink
         /\ (input.prevLink = <<>> /\ input.traceId # <<>>) =>
              /\ Len(HeadQueriesOf(t)) = 1
              /\ mine[1].query = GetHeadLinkQuery
              /\ tasks[t].pc = "head" => Len(mine) = 1 /\ tasks[t].cfg = <<>>
              /\ tasks[t].parentLink # <<>> =>
                   tasks[t].parentLink[1].mapId = input.traceId[1]
         /\ (input.prevLink = <<>> /\ input.traceId = <<>>) =>
              /\ tasks[t].pc = "failed"
              /\ tasks[t].error = ERROR_HEAD
              /\ mine = <<>>

\* an operation given the head of one trace and the id of another trace is
\* done: it made no head link query and its link follows the link given
C25_Witness ==
  \E t \in DOMAIN tasks :
    /\ tasks[t].pc = "done"
    /\ tasks[t].kind = "pushTrace"
    /\ tasks[t].input.prevLink # <<>>
    /\ tasks[t].input.traceId # <<>>
    /\ tasks[t].input.traceId[1] # tasks[t].input.prevLink[1].mapId
    /\ HeadQueriesOf(t) = <<>>
    /\ tasks[t].result[1].mapId = tasks[t].input.prevLink[1].mapId

\* an operation given a trace id alone is done after one head link query, a
\* config query and a submission, in this order
C25_WitnessTraceId ==
  \E t \in DOMAIN tasks :
    /\ tasks[t].pc = "done"
    /\ tasks[t].input.prevLink = <<>>
    /\ Len(HeadQueriesOf(t)) = 1
    /\ Brief(CallsOf(t)) = << <<GetHeadLinkQuery, "ok">>, <<ConfigQuery, "ok">>,
                              <<CreateLinkMutation, "ok">> >>

\* an operation given neither has failed
C25_WitnessNeither ==
  \E t \in DOMAIN tasks :
    /\ tasks[t].kind = "cancelTransfer"
    /\ tasks[t].error = ERROR_HEAD
    /\ CallsOf(t) = <<>>


\* the ids of the candidate groups
CandidateGroups == { groupCall.groupLabelToIdMap[i][2] : i \in DOMAIN groupCall.groupLabelToIdMap }

\* C27: the selection of the group yields exactly one group or fails. With no
\* candidate group it fails with the no-group error; with exactly one group
\* and no label argument it returns that group; with more than one group and
\* no label argument it returns the group of the configured groupLabel if
\* that label names a group, and fails with the ambiguous-group error
\* otherwise; with a label argument it returns the group of that label, and
\* fails when no group has it.
C27_GroupSelection ==
  groupCall.called =>
    LET map == groupCall.groupLabelToIdMap
        param == groupCall.groupLabelParam
        Returns(id) == groupCall.error = NoError /\ groupCall.groupId = id
        Fails == groupCall.error # NoError /\ groupCall.groupId = Undefined
        Named(label) == \E i \in DOMAIN map : map[i][1] = label
    IN /\ Fails \/ (groupCall.error = NoError /\ groupCall.groupId \in CandidateGroups)
       /\ map = <<>> => Fails /\ groupCall.error = ERROR_NO_GROUP_TO_SELECT
       /\ (Len(map) = 1 /\ param = Undefined) => Returns(map[1][2])
       /\ (Len(map) > 1 /\ param = Undefined) =>
            IF groupCall.groupLabel # Undefined /\ Named(groupCall.groupLabel)
              THEN Returns(GroupIdOfLabel(groupCall.groupLabel))
              ELSE Fails /\ groupCall.error = ERROR_MULTIPLE_GROUPS
       /\ (map # <<>> /\ param # Undefined) =>
            IF Named(param) THEN Returns(GroupIdOfLabel(param)) ELSE Fails

\* with three groups and the label of the second one configured, a call
\* without label returns the second group
C27_Witness ==
  /\ groupCall.called
  /\ Len(groupCall.groupLabelToIdMap) = 3
  /\ groupCall.groupLabelParam = Undefined
  /\ groupCall.groupLabel = groupCall.groupLabelToIdMap[2][1]
  /\ groupCall.groupId = groupCall.groupLabelToIdMap[2][2]
  /\ groupCall.error = NoError

\* with two groups and no label, configured or given, the call fails
C27_WitnessAmbiguous ==
  /\ groupCall.called
  /\ Len(groupCall.groupLabelToIdMap) = 2
  /\ groupCall.groupLabelParam = Undefined
  /\ groupCall.groupLabel = Undefined
  /\ groupCall.error = ERROR_MULTIPLE_GROUPS


\* the key that the claim names for the secret of the Sdk and the signing
\* key that the remote service holds
KeyAsClaimed ==
  IF isPrivateKeySecret(opts.secret) THEN opts.secret.privateKey
  ELSE IF service.signingKey = "null" THEN Undefined
  ELSE "pemRemote"

\* C28: when the config is resolved, the private key of the secret of the
\* caller is used if the secret holds one, whatever the response holds;
\* otherwise the key of the response is used, and only if it is not password
\* protected; a password protected key in the response, with no private key
\* in the secret, makes the resolution fail with 'Cannot get signing private
\* key', and no config is stored.
C28_KeyResolution ==
  LET local == isPrivateKeySecret(opts.secret)
      answered == { i \in CallsTo(ConfigQuery) : graphqlCalls[i].outcome # "pending" }
  IN /\ config # <<>> =>
          /\ config[1].signingPrivateKey = KeyAsClaimed
          /\ ~local => service.signingKey # "protected"
     /\ \A t \in DOMAIN tasks :
          /\ tasks[t].cfg # <<>> => tasks[t].cfg[1].signingPrivateKey = KeyAsClaimed
          /\ tasks[t].link # <<>> =>
               \A i \in DOMAIN tasks[t].link[1].signatures :
                 tasks[t].link[1].signatures[i].key = KeyAsClaimed
     /\ \A i \in answered : graphqlCalls[i].outcome # ERROR_KEY \/ (~local /\ service.signingKey = "protected")
     /\ (~local /\ service.signingKey = "protected") =>
          /\ config = <<>>
          /\ \A i \in answered :
               graphqlCalls[i].outcome
                 \in {ERROR_QUERY, ERROR_WORKFLOW, ERROR_MANY_GROUPS, ERROR_NO_GROUP, ERROR_KEY}
          /\ \A t \in DOMAIN tasks :
               tasks[t].cfg = <<>> /\ tasks[t].builder = <<>> /\ tasks[t].pc # "done"

\* an Sdk made with a private key has submitted a link signed with that key,
\* while the key that the remote service holds is password protected
C28_Witness ==
  /\ isPrivateKeySecret(opts.secret)
  /\ service.signingKey = "protected"
  /\ tasks[1].pc = "done"
  /\ config # <<>> /\ config[1].signingPrivateKey = "pemLocal"
  /\ tasks[1].result[1].signatures[1].key = "pemLocal"

\* an Sdk made with credentials has failed to resolve its config: the key of
\* the response is password protected
C28_WitnessProtected ==
  /\ ~isPrivateKeySecret(opts.secret)
  /\ service.signingKey = "protected"
  /\ tasks[1].pc = "failed"
  /\ tasks[1].error = ERROR_KEY
  /\ config = <<>>


\* the submissions of task t that were answered with an error other than
\* the configuration-deprecated signal, as positions in CallsOf(t)
OtherSubmitErrors(t) ==
  { i \in DOMAIN CallsOf(t) :
      /\ CallsOf(t)[i].query = CreateLinkMutation
      /\ CallsOf(t)[i].outcome \notin {"pending", "ok", ERROR_CONFIG_DEPRECATED} }

\* after such an answer the operation makes no further call (no config
\* query, no second submission) and ends with the error that Client.graphql
\* threw
C29_NoRefreshNoResubmission ==
  \A t \in DOMAIN tasks : \A i \in OtherSubmitErrors(t) :
    /\ i = Len(CallsOf(t))
    /\ tasks[t].pc = "failed"
    /\ tasks[t].error = graphqlError(CallsOf(t)[i].outcome)
    /\ tasks[t].result = <<>>

\* C29: when a link submission fails with any error other than the
\* configuration-deprecated signal (a network failure, a 5xx-class error, a
\* validation error), the write operation refreshes no config and submits
\* nothing again, and the caller receives that very error, unmodified.
C29_ErrorSurfacedUnmodified ==
  \A t \in DOMAIN tasks : \A i \in OtherSubmitErrors(t) :
    /\ i = Len(CallsOf(t))
    /\ tasks[t].pc = "failed"
    /\ tasks[t].error = CallsOf(t)[i].outcome

\* the first submission of an attestation got no answer: the operation has
\* ended without a further call, with the TypeError in place of the failure
C29_Witness ==
  /\ OtherSubmitErrors(1) = {Len(CallsOf(1))}
  /\ CallsOf(1)[Len(CallsOf(1))].outcome = ERROR_NETWORK
  /\ tasks[1].pc = "failed"
  /\ tasks[1].error = ERROR_NO_RESPONSE

\* the first submission was answered with a service error: the operation has
\* ended without a further call, with that error
C29_WitnessServiceError ==
  /\ OtherSubmitErrors(1) = {Len(CallsOf(1))}
  /\ tasks[1].pc = "failed"
  /\ tasks[1].error = ERROR_SUBMIT


----------------------------------------------------------------------------
(* Claims about the read operations, checked under SpecRead. *)

\* the queries of read operations among the calls of task t
ReadQueriesOf(t) ==
  LET IsRead(c) == c.query \in ReadQueries IN SelectSeq(CallsOf(t), IsRead)

\* the config queries among the calls of task t
ConfigQueriesOf(t) ==
  LET IsConfig(c) == c.query = ConfigQuery IN SelectSeq(CallsOf(t), IsConfig)

\* pagination arguments of both directions: first or after, with last or
\* before
Mixed(page) ==
  /\ page.first # Undefined \/ page.after # Undefined
  /\ page.last # Undefined \/ page.before # Undefined

\* the read operations that take pagination arguments
PagedKinds == ReadKinds \ {"getTraceState"}

\* whatever the pagination arguments, getTraceDetails sends its query at
\* once, and the one operation that throws before any remote call is a
\* stage listing whose action key does not fit its stage type
C26_PageNotLookedAt ==
  \A t \in DOMAIN tasks :
    tasks[t].kind \in PagedKinds =>
      /\ tasks[t].kind = "getTraceDetails" => Len(ReadQueriesOf(t)) = 1
      /\ tasks[t].pc = "failed" /\ CallsOf(t) = <<>> =>
           tasks[t].error = ERROR_STAGE_ACTION

\* C26: the paginated read operations reject mixed cursor directions before
\* any network call: with {first: 5, before: 'x'} the operation fails and no
\* remote query is issued, while with {first: 5, after: 'y'} and with
\* {last: 5, before: 'y'} the operation is accepted and issues exactly one
\* query.
C26_MixedCursorsRejected ==
  \A t \in DOMAIN tasks :
    tasks[t].kind \in PagedKinds =>
      IF Mixed(tasks[t].input.page)
        THEN tasks[t].pc = "failed" /\ CallsOf(t) = <<>>
        ELSE tasks[t].pc = "done" => Len(ReadQueriesOf(t)) = 1

\* getTraceDetails was called with {first: 5, before: 'x'}: its query was
\* sent, and the operation has thrown the rejection of the remote service
C26_Witness ==
  /\ tasks[1].kind = "getTraceDetails"
  /\ tasks[1].input.page = [NoPage EXCEPT !.first = "5", !.before = "x"]
  /\ Brief(CallsOf(1)) = << <<GetTraceDetailsQuery, ERROR_QUERY>> >>
  /\ tasks[1].pc = "failed"
  /\ tasks[1].error = ERROR_QUERY

\* a stage listing was called with {last: 5, before: 'y'} and has returned
\* after one query
C26_WitnessAccepted ==
  /\ tasks[1].kind = "getBacklogTraces"
  /\ tasks[1].input.page = [NoPage EXCEPT !.last = "5", !.before = "y"]
  /\ Len(ReadQueriesOf(1)) = 1
  /\ tasks[1].pc = "done"


\* the read operations whose query takes an id of the config
ConfigReaders == StageKinds \cup {"searchTraces"}

\* C30: each read operation performs a single read query per call, sent last.
\* getTraceState and getTraceDetails make no other remote call; the stage
\* listings (getIncomingTraces, getOutgoingTraces, getBacklogTraces,
\* getAttestationTraces) and searchTraces first get the config of the Sdk,
\* which costs one config query more when no config is cached, and send no
\* read query when they get no config.
C30_OneReadQuery ==
  /\ \A t \in DOMAIN tasks :
       tasks[t].kind \in ReadKinds =>
         LET calls == CallsOf(t)
             reads == ReadQueriesOf(t)
             cfgs == ConfigQueriesOf(t)
         IN /\ Len(reads) <= 1
            /\ tasks[t].pc \in {"read", "done"} => Len(reads) = 1
            /\ reads # <<>> => /\ reads[1].query = readQuery(tasks[t].kind)
                               /\ calls[Len(calls)] = reads[1]
            /\ Len(calls) = Len(cfgs) + Len(reads)
            /\ IF tasks[t].kind \in ConfigReaders
                 THEN /\ Len(cfgs) <= 1
                      /\ reads # <<>> => tasks[t].cfg # <<>>
                      /\ cfgs # <<>> /\ cfgs[1].outcome \notin {"pending", "ok"} =>
                           reads = <<>> /\ tasks[t].pc = "failed"
                 ELSE cfgs = <<>>
  /\ \A i, j \in CallsTo(ConfigQuery) : i < j => graphqlCalls[i].outcome \notin {"pending", "ok"}

\* every read operation that has returned has made one remote call
C30_SingleRemoteQuery ==
  \A t \in DOMAIN tasks :
    tasks[t].kind \in ReadKinds /\ tasks[t].pc = "done" => Len(CallsOf(t)) = 1

\* a stage listing on an Sdk without a config has returned after a config
\* query and its own query
C30_Witness ==
  /\ tasks[1].kind = "getIncomingTraces"
  /\ tasks[1].pc = "done"
  /\ Brief(CallsOf(1)) = << <<ConfigQuery, "ok">>, <<GetTracesInStageQuery, "ok">> >>

\* a search has returned after its own query alone: the config was cached by
\* the stage listing before
C30_WitnessCached ==
  /\ tasks[2].kind = "searchTraces"
  /\ tasks[2].pc = "done"
  /\ Brief(CallsOf(2)) = << <<SearchTracesQuery, "ok">> >>
  /\ tasks[1].kind \in StageKinds
  /\ ConfigQueriesOf(1) # <<>>

\* getTraceState has returned the head of the trace after one call
C30_WitnessTraceState ==
  /\ tasks[1].kind = "getTraceState"
  /\ tasks[1].pc = "done"
  /\ tasks[1].result = <<ExistingHead>>
  /\ Len(CallsOf(1)) = 1


----------------------------------------------------------------------------
(* Claims about the Client, checked under SpecClient. *)

\* the positions in client.calls of the calls to the urls
ClientCallsTo(urls) == { i \in DOMAIN client.calls : client.calls[i].url \in urls }

\* the calls of request t, in order
ClientCallsOf(t) == SelectSeq(client.calls, LAMBDA c : c.task = t)

\* the requests that need authentication: graphql requests, and get and post
\* requests whose caller gave no authToken and no skipAuth
Authenticated(t) ==
  /\ client.reqs[t].pc # "idle"
  /\ \/ client.reqs[t].method = "graphql"
     \/ client.reqs[t].given = <<>>
     \/ /\ client.reqs[t].given # <<>>
        /\ client.reqs[t].given[1].authToken = Undefined
        /\ ~client.reqs[t].given[1].skipAuth

\* no call was answered with a failure so far
NoFailure == \A i \in DOMAIN client.calls : client.calls[i].outcome \in {"pending", "ok"}

\* C31: login is single-flight. When several authenticated requests (graphql,
\* get, post) are started concurrently on a client that holds no token,
\* exactly one login request is sent, it completes before any of those
\* requests is sent, and all of them are sent with the token it returned; at
\* no time are two login requests in flight. (The exact count is stated for
\* the runs in which no call is answered with a failure.)
C31_SingleFlightLogin ==
  /\ Cardinality({ i \in ClientCallsTo({"salt", "login"}) :
                     client.calls[i].outcome = "pending" }) <= 1
  /\ NoFailure =>
       /\ Cardinality(ClientCallsTo({"login"})) <= 1
       /\ \A i \in ClientCallsTo({"route", "graphql"}) :
            Authenticated(client.calls[i].task) =>
              /\ client.calls[i].header = <<"Bearer", TokenNames[1]>>
              /\ \E j \in ClientCallsTo({"login"}) : j < i /\ client.calls[j].outcome = "ok"

\* a graphql request and a post request were started on a client without a
\* token: one login was made, by the first, and both requests are in flight
\* with its token
C31_Witness ==
  /\ client.reqs[1].method = "graphql" /\ client.reqs[2].method = "post"
  /\ Authenticated(1) /\ Authenticated(2)
  /\ client.reqs[1].pc = "sent" /\ client.reqs[2].pc = "sent"
  /\ Cardinality(ClientCallsTo({"login"})) = 1
  /\ client.calls[1].url = "login" /\ client.calls[1].task = 1
  /\ \A i \in ClientCallsTo({"route", "graphql"}) :
       client.calls[i].header = <<"Bearer", TokenNames[1]>>

\* the second request waits for the mutex while the login of the first is in
\* flight
C31_WitnessWaiting ==
  /\ client.reqs[1].pc = "login"
  /\ client.reqs[2].pc = "waiting"
  /\ Authenticated(2)


\* the positions in client.calls of the sends of request t itself, and the
\* n-th of them
SendsOf(t) ==
  { i \in ClientCallsTo({"route", "graphql"}) : client.calls[i].task = t }
NthSend(t, n) ==
  CHOOSE i \in SendsOf(t) : Cardinality({ j \in SendsOf(t) : j <= i }) = n

\* two requests that need authentication were sent with the same token, each
\* was answered with 401 and had a retry count that is not 0, and no other
\* call was answered with a failure
BothUnauthorized(t, u) ==
  /\ t # u /\ Authenticated(t) /\ Authenticated(u)
  /\ SendsOf(t) # {} /\ SendsOf(u) # {}
  /\ client.calls[NthSend(t, 1)].header = client.calls[NthSend(u, 1)].header
  /\ client.calls[NthSend(t, 1)].header # <<>>
  /\ client.calls[NthSend(t, 1)].outcome = "401"
  /\ client.calls[NthSend(u, 1)].outcome = "401"
  /\ client.reqs[t].cleared # <<>> /\ client.reqs[u].cleared # <<>>
  /\ \A i \in DOMAIN client.calls :
       i \notin {NthSend(t, 1), NthSend(u, 1)} => client.calls[i].outcome \in {"pending", "ok"}

\* the logins made after the first sends of the two requests
NewLogins(t, u) ==
  { j \in ClientCallsTo({"login"}) : j > NthSend(t, 1) /\ j > NthSend(u, 1) }

\* one new login and no more, and every resend made so far comes after it
\* and carries its token
OneNewLogin(t, u) ==
  /\ Cardinality(NewLogins(t, u)) <= 1
  /\ \A r \in {t, u} :
       Cardinality(SendsOf(r)) <= 2 /\
       (Cardinality(SendsOf(r)) = 2 =>
          \E j \in NewLogins(t, u) :
            /\ j < NthSend(r, 2)
            /\ client.calls[j].outcome = "ok"
            /\ client.calls[NthSend(r, 2)].header = <<"Bearer", TokenNames[client.issued]>>
            /\ client.calls[NthSend(r, 2)].header # client.calls[NthSend(r, 1)].header)

\* the 401 of request t cleared no token that is newer than the token the
\* request was sent with
NotStale(t) ==
  \A i \in DOMAIN client.reqs[t].cleared :
    client.reqs[t].cleared[i] = Undefined \/
    <<"Bearer", client.reqs[t].cleared[i]>> = client.calls[NthSend(t, 1)].header

\* C32: when several concurrent requests sent with the same expired token are
\* each answered with 401, and each 401 is received before the new login has
\* completed, the client performs exactly one new login and then retries each
\* request once with the new token; a 401 received after the new login has
\* completed clears the new token, and that request is retried after a
\* login of its own.
C32_OneNewLoginUnlessStale ==
  \A t, u \in DOMAIN client.reqs :
    BothUnauthorized(t, u) =>
      IF NotStale(t) /\ NotStale(u)
        THEN OneNewLogin(t, u)
        ELSE /\ Cardinality(NewLogins(t, u)) <= 2
             /\ \A r \in {t, u} :
                  Cardinality(SendsOf(r)) = 2 =>
                    /\ client.calls[NthSend(r, 2)].header # <<>>
                    /\ client.calls[NthSend(r, 2)].header # client.calls[NthSend(r, 1)].header

\* C32 as stated: exactly one new login whenever the 401s are received
C32_OneNewLogin ==
  \A t, u \in DOMAIN client.reqs : BothUnauthorized(t, u) => OneNewLogin(t, u)

\* the order of the test: request 1, request 2, login, retry 1, retry 2
C32_Witness ==
  /\ BothUnauthorized(1, 2)
  /\ NotStale(1) /\ NotStale(2)
  /\ Len(client.calls) = 6
  /\ [i \in 2..6 |-> <<client.calls[i].task, client.calls[i].url>>] =
       [i \in 2..6 |-> << <<1, "route">>, <<2, "route">>, <<1, "login">>,
                         <<1, "route">>, <<2, "route">> >>[i - 1]]

\* the 401 of request 2 was received after the new login of request 1: it
\* cleared the new token, and request 2 made a second new login
C32_WitnessStale ==
  /\ BothUnauthorized(1, 2)
  /\ ~NotStale(2)
  /\ Cardinality(NewLogins(1, 2)) = 2
  /\ Cardinality(SendsOf(2)) = 2


\* the retry count that request t was started with: that of the options of
\* the caller, or that of the default options; <<>> when the options of the
\* caller hold none
RetryGiven(t) ==
  optionsOrDefault(client.reqs[t].method, client.reqs[t].given).retry

\* the number of sends of request t
NumSends(t) == Cardinality(SendsOf(t))

\* C33: a request answered with 401 is resent only while its retry count is
\* positive. With retry = r the request is sent at most r + 1 times; every
\* 401 with a positive count clears the token, so that each resend of a
\* request that needs authentication is preceded by a new login; the count
\* decreases by one per resend; and at 0 the failure is returned to the
\* caller. This holds for get, post and graphql.
C33_RetryBudget ==
  \A t \in DOMAIN client.reqs :
    (client.reqs[t].pc # "idle" /\ RetryGiven(t) # <<>>) =>
      LET r == RetryGiven(t)[1]
          n == NumSends(t)
          last == client.calls[NthSend(t, n)]
      IN /\ n <= r + 1
         /\ n >= 1 => client.reqs[t].retry = <<r - Len(client.reqs[t].cleared)>>
         /\ Len(client.reqs[t].cleared) = IF n = 0 THEN 0
                                          ELSE IF last.outcome = "401" /\ n <= r THEN n
                                          ELSE n - 1
         /\ \A k \in 1..(n - 1) :
              /\ client.calls[NthSend(t, k)].outcome = "401"
              /\ Authenticated(t) =>
                   \E j \in ClientCallsTo({"login"}) :
                     /\ NthSend(t, k) < j /\ j < NthSend(t, k + 1)
                     /\ client.calls[j].outcome = "ok"
                     /\ client.calls[NthSend(t, k + 1)].header # <<>>
         /\ (n = r + 1 /\ last.outcome = "401") =>
              /\ client.reqs[t].pc = "failed"
              /\ client.reqs[t].error = "401"
              /\ client.reqs[t].retry = <<0>>

\* a graphql request with retry = 2 was sent three times, each time after a
\* login of its own, and has failed with the third 401
C33_Witness ==
  /\ client.reqs[1].method = "graphql"
  /\ RetryGiven(1) = <<2>>
  /\ NumSends(1) = 3
  /\ Cardinality({ j \in ClientCallsTo({"login"}) : client.calls[j].task = 1 }) = 3
  /\ client.reqs[1].pc = "failed"
  /\ client.reqs[1].error = "401"

\* a get request without options was resent once and has returned
C33_WitnessDefault ==
  /\ client.reqs[1].method = "get"
  /\ client.reqs[1].given = <<>>
  /\ NumSends(1) = 2
  /\ client.reqs[1].pc = "done"


\* the number of logins that had succeeded when call i was sent (all the
\* logins sent before have ended by then: at most one is in flight)
LoginsBefore(i) ==
  Cardinality({ j \in ClientCallsTo({"login"}) : j < i /\ client.calls[j].outcome = "ok" })

\* the token was cleared by the 401 of some request
Cleared(token) ==
  \E t \in DOMAIN client.reqs :
    \E k \in DOMAIN client.reqs[t].cleared : client.reqs[t].cleared[k] = token

\* C34: an authenticated request (no authToken, no skipAuth) triggers a login
\* exactly when the client holds no token. The first such request on a fresh
\* client sends the login request before the request itself; a later
\* request made while a token is held sends only the request itself,
\* carrying 'Bearer <token>'. So a login request is sent only on a client
\* that never had a token or whose last token was cleared, and every
\* authenticated request is sent after a login, with the last token issued.
C34_LoginWhenNoToken ==
  /\ \A j \in ClientCallsTo({"salt", "login"}) :
       /\ Authenticated(client.calls[j].task)
       /\ LoginsBefore(j) = 0 \/ Cleared(TokenNames[LoginsBefore(j)])
  /\ \A i \in ClientCallsTo({"route", "graphql"}) :
       Authenticated(client.calls[i].task) =>
         /\ LoginsBefore(i) >= 1
         /\ client.calls[i].header = <<"Bearer", TokenNames[LoginsBefore(i)]>>

\* the first request on a fresh client has sent a login and then itself and
\* has returned; the second request was sent with the token, without a login
C34_Witness ==
  /\ Authenticated(1) /\ Authenticated(2)
  /\ client.reqs[1].pc = "done"
  /\ client.reqs[2].pc = "sent"
  /\ [i \in DOMAIN client.calls |-> <<client.calls[i].task, client.calls[i].url>>] =
       << <<1, "login">>, <<1, "route">>, <<2, "route">> >>
  /\ client.calls[3].header = <<"Bearer", TokenNames[1]>>


\* request t was given an options object that holds no retry count
NoRetryField(t) ==
  /\ client.reqs[t].pc # "idle"
  /\ client.reqs[t].given # <<>>
  /\ client.reqs[t].given[1].retry = <<>>

\* request t has ended with the 401 of its first and only send (and not with
\* that of a login)
FailedUnsent(t) ==
  /\ client.reqs[t].pc = "failed"
  /\ client.reqs[t].error = "401"
  /\ NumSends(t) = 1
  /\ LET own == ClientCallsOf(t)
     IN own[Len(own)].url \in {"route", "graphql"}

\* C35: the retry count defaults to 1, whether no options object is passed
\* or an options object without a retry field (only skipAuth or authToken,
\* say): a request started without a retry count does not end with the 401
\* of its first send, it is sent a second time.
C35_RetryDefaultsToOne ==
  \A t \in DOMAIN client.reqs :
    ((client.reqs[t].pc # "idle" /\ client.reqs[t].given = <<>>) \/ NoRetryField(t)) =>
      ~FailedUnsent(t)

\* C35, the part that the code keeps: without an options object the default
\* options are used, and the request is sent a second time after a 401
C35_DefaultWithoutOptions ==
  \A t \in DOMAIN client.reqs :
    (client.reqs[t].pc # "idle" /\ client.reqs[t].given = <<>>) =>
      /\ RetryGiven(t) = <<1>>
      /\ ~FailedUnsent(t)

\* a get with the options {skipAuth: true} has ended with the 401 of its
\* only send
C35_Witness ==
  /\ NoRetryField(1)
  /\ client.reqs[1].method = "get"
  /\ client.reqs[1].given[1].skipAuth
  /\ FailedUnsent(1)

\* a request without options was sent twice and has ended with the second 401
C35_WitnessDefault ==
  /\ client.reqs[1].pc = "failed"
  /\ client.reqs[1].given = <<>>
  /\ client.reqs[1].error = "401"
  /\ NumSends(1) = 2


\* the tokens that the logins answered before call i have set
IssuedBefore(i) == { TokenNames[k] : k \in 1..LoginsBefore(i) }

C37_WitnessSecondToken ==
  /\ client.reqs[1].cleared = <<TokenNames[1]>>
  /\ NumSends(2) = 1
  /\ client.calls[NthSend(2, 1)].header = <<"Bearer", TokenNames[2]>>


\* the config query of the forced refresh of task t is answered with an
\* error in this step
RefreshFails(t) ==
  /\ tasks[t].pc = "query"
  /\ tasks[t].stage = "refresh"
  /\ tasks'[t].pc = "failed"

\* getConfig of task t, which forces no update, runs in this step with a
\* config cached
CachedGetConfig(t) ==
  /\ tasks[t].pc = "locked"
  /\ tasks[t].stage # "refresh"
  /\ config # <<>>
  /\ tasks'[t].pc # "locked"

\* C38: a forced config refresh that fails leaves the cached config as it
\* was: the caller that forced the refresh receives the error of its config
\* query, and every getConfig call that forces no update returns the cached
\* config (configId, group and key as before) without a new query.
C38_FailedRefreshKeepsConfig ==
  [][/\ \A t \in DOMAIN tasks :
          RefreshFails(t) =>
            /\ config # <<>>
            /\ config' = config
            /\ tasks'[t].error \in ConfigErrors
            /\ graphqlCalls' = Answer(graphqlCalls, t, tasks'[t].error)
     /\ \A t \in DOMAIN tasks :
          CachedGetConfig(t) =>
            /\ tasks'[t].pc = "cfgDone"
            /\ tasks'[t].cfg = config
            /\ config' = config
            /\ graphqlCalls' = graphqlCalls]_vars

\* the forced refresh of one operation has failed; the getConfig of the
\* other operation has returned the cached config since, without a query
C38_Witness ==
  \E t, u \in DOMAIN tasks :
    /\ tasks[t].pc = "failed"
    /\ tasks[t].stage = "refresh"
    /\ tasks[t].error \in ConfigErrors
    /\ LastIsOwnConfigQuery(t, tasks[t].error)
    /\ tasks[u].pc = "cfgDone"
    /\ tasks[u].stage = "op"
    /\ tasks[u].cfg = config
    /\ CallsOf(u) = <<>>


\* the upload-and-substitute step of task t has succeeded: client.uploadFiles
\* has returned and the link builder was made of the payload returned
Substituted(t) ==
  /\ tasks[t].upload # <<>>
  /\ tasks[t].upload[1].outcome = "ok"
  /\ tasks[t].builder # <<>>

\* every path at which the data of task t hold a file wrapper holds a file
\* record in the payload that is hashed, which holds no file wrapper
RecordsAtAllPaths(t) ==
  LET places == Matching(tasks[t].input.data, "wrapper")
      formData == tasks[t].builder[1].formData
  IN /\ \A i \in DOMAIN places : isFileRecord(ValueAt(formData, places[i]))
     /\ Matching(formData, "wrapper") = <<>>

C39_WitnessFewerRecords ==
  /\ tasks[1].pc = "done"
  /\ tasks[1].upload # <<>>
  /\ Len(tasks[1].upload[1].files) = 2
  /\ Len(tasks[1].upload[1].records) = 1
  /\ Matching(tasks[1].result[1].formData, "wrapper") # <<>>


\* the operation of task t, the request t, is in progress
SdkPending(t) == tasks[t].pc \notin {"idle", "done", "failed"}
ClientPending(t) == client.reqs[t].pc \notin {"idle", "done", "failed"}

\* no operation and no request is in progress
NothingPending ==
  /\ \A t \in DOMAIN tasks : ~SdkPending(t)
  /\ \A t \in DOMAIN client.reqs : ~ClientPending(t)

\* each mutex is locked only while a getConfig call, a login call, holds it
MutexesHeld ==
  /\ mutex.locked <=> \E t \in DOMAIN tasks : tasks[t].pc \in {"locked", "query"}
  /\ client.mutex.locked <=>
       \E t \in DOMAIN client.reqs : client.reqs[t].pc \in {"locked", "salt", "login"}
  /\ \A t \in DOMAIN tasks : tasks[t].pc = "waiting" => mutex.locked
  /\ \A t \in DOMAIN client.reqs : client.reqs[t].pc = "waiting" => client.mutex.locked

\* C36: no caller waits forever on the config mutex or on the login mutex.
\* getConfig and login release their mutex on every exit path (cached value,
\* success, thrown error), and the requests that login sends carry authToken
\* or skipAuth, so that they do not call login; hence, as every remote call
\* is answered, every Sdk operation and every Client request in progress
\* ends, it returns or it throws: at any time a later time comes at which
\* none is in progress (one that has ended does not start again).
C36_EveryOperationEnds == [](MutexesHeld) /\ []<>NothingPending

\* a request waits on the login mutex while the login of the other request
\* is in progress
C36_Witness ==
  /\ client.mutex.locked
  /\ client.mutex.queue = <<2>>
  /\ client.reqs[1].pc = "login"
  /\ client.reqs[2].pc = "waiting"

\* an operation waits on the config mutex while the config query of the
\* other operation is in progress
C36_WitnessConfig ==
  /\ mutex.locked
  /\ mutex.queue = <<2>>
  /\ tasks[1].pc = "query"
  /\ tasks[2].pc = "waiting"

====
